---- MODULE Spec2Model ----
(***************************************************************************)
(* Rank-role and achievement synchronisation of the TLE bot                *)
(* (src/tle/cogs/handles.py, class Handles).                               *)
(*                                                                         *)
(* State: the handle links and the achievement ledger of user_db, the      *)
(* roles of the guilds and of their members, the rating service's user     *)
(* data, and the position of the rating-change listener's per-guild        *)
(* pipelines.  The listener's pipelines advance step by step (one step per *)
(* stretch of code between two awaits that matter); the commands run as    *)
(* one step each, which is one of the schedules asyncio can produce.       *)
(***************************************************************************)
EXTENDS Integers, Sequences, FiniteSets, TLC

\* ------------------------------------------------------------------ bounds
MaxContests == 1
MaxRedeliver == 1
MaxOps == 2
MaxMixedOps == 1
MaxIdentify == 1

\* ------------------------------------------------------- program constants
PupilRating == 1200
TrustedRating == 1900

\* --------------------------------------------------------------- universes
Guilds == {"g1", "g2"}
Members == {1, 2}
Handles == {"h1", "h2", "h3"}
NewRatings == {1100, 1300, 1950}

None == -1000000001
NoHandle == "NoHandle"
NoRole == "NoRole"
NoRank == "NoRank"

TLE_PURGATORY == "Purgatory"
TLE_TRUSTED == "Trusted"

\* cf.RATED_RANKS, in ascending order, and cf.UNRATED_RANK
RATED_RANKS ==
    << [title |-> "Newbie", low |-> -1000000000],
       [title |-> "Pupil", low |-> 1200],
       [title |-> "Specialist", low |-> 1400],
       [title |-> "Expert", low |-> 1600],
       [title |-> "Candidate Master", low |-> 1900],
       [title |-> "Master", low |-> 2100] >>

UNRATED_RANK == [title |-> "Unrated", low |-> None]

RatedTitles == {RATED_RANKS[i].title : i \in 1..Len(RATED_RANKS)}

RoleNames == RatedTitles \cup {TLE_PURGATORY, TLE_TRUSTED}

\* rank_order.index(title); 0 stands for "not in the list" (ValueError / -1)
RankIndex(title) ==
    IF title \in RatedTitles
    THEN CHOOSE i \in 1..Len(RATED_RANKS) : RATED_RANKS[i].title = title
    ELSE 0

\* cf.rating2rank
rating2rank(rating) ==
    IF rating = None \/ rating < RATED_RANKS[1].low
    THEN UNRATED_RANK
    ELSE LET idx == {i \in 1..Len(RATED_RANKS) : RATED_RANKS[i].low <= rating}
         IN RATED_RANKS[CHOOSE i \in idx : \A j \in idx : j <= i]

\* Python truthiness of an optional integer
Truthy(x) == x # None /\ x # 0

Max2(a, b) == IF a >= b THEN a ELSE b

RECURSIVE SeqMax(_)
SeqMax(s) == IF Len(s) = 1 THEN s[1] ELSE Max2(s[1], SeqMax(Tail(s)))

\* ascending sequence of a set of member ids
RECURSIVE SortedSeq(_)
SortedSeq(S) ==
    IF S = {} THEN <<>>
    ELSE LET x == CHOOSE y \in S : \A z \in S : y <= z
         IN <<x>> \o SortedSeq(S \ {x})

SeqToSet(s) == {s[i] : i \in 1..Len(s)}

\* A local variable: x is computed once and F is applied to its value
Bind(x, F(_)) == CHOOSE v \in {F(y) : y \in {x}} : TRUE

\* ------------------------------------------------------------------- state
VARIABLES
    handleOf,      \* user_db handle links: guild -> member -> handle
    present,       \* guild -> members for which guild.get_member is not None
    guildRoles,    \* guild -> names of the roles that exist in the guild
    roles,         \* guild -> member -> names of the roles the member holds
    cfHist,        \* rating service: handle -> rating history (cf.user.rating)
    ledger,        \* user_db achievements: guild -> member -> (max, rank)
    autoRole,      \* guilds with auto role update enabled
    rankupChannel, \* guilds whose rankup channel is configured and exists
    queue,         \* rating-change events waiting for the listener's lock
    evBatch,       \* change_by_handle of the event the listener is handling
    locked,        \* the listener's lock (with_lock=True)
    pc,            \* guild -> position of update_for_guild
    run,           \* guild -> locals of the pipeline's _update_ranks
    achievements,  \* guild -> members with an announcement entry in this run
    sent,          \* guild -> members announced in this run
    phaseLog,      \* guild -> phases the current pipeline went through
    interfered,    \* guild -> a command touched the guild's roles mid-run
    achSeen,       \* guild -> last batch applied to the ledger, if still clean
    last,          \* what the last step did (operation, calls issued, ...)
    nContests, nRedeliver, nOps,
    identifying,   \* identify runs waiting for the member's submission
    nIdentify

vars == << handleOf, present, guildRoles, roles, cfHist, ledger, autoRole,
           rankupChannel, queue, evBatch, locked, pc, run, achievements, sent,
           phaseLog, interfered, achSeen, last, nContests, nRedeliver, nOps,
           identifying, nIdentify >>

NoRecord == [max |-> None, rank |-> NoRank]

NoBatch == [h \in Handles |-> None]

\* --------------------------------------------------------- rating service
\* cf.user.info: the user's current rating and maxRating
UserInfo(h) ==
    LET hist == cfHist[h]
    IN IF hist = <<>>
       THEN [handle |-> h, rating |-> None, maxRating |-> None]
       ELSE [handle |-> h,
             rating |-> hist[Len(hist)].newRating,
             maxRating |-> SeqMax([i \in 1..Len(hist) |-> hist[i].newRating])]

\* user.rank of a cf user
UserRank(user) == rating2rank(user.rating)

\* ------------------------------------------------------------ role updates
\* What can go wrong while one member is processed.
FailModes == {"none", "api", "hist", "trusted", "remove", "add"}

\* A role mutation call: the member, add or remove, the roles named, whether
\* it succeeded; for remove_roles also the roles the member held when the
\* call was made and the role_to_assign of the update it belongs to
Call(m, kind, rs, ok) ==
    [member |-> m, kind |-> kind, roles |-> rs, ok |-> ok,
     held |-> {}, target |-> "-"]

\* Handles.maybe_add_trusted_role; handle is user_db.get_handle(member, guild)
maybe_add_trusted_role(g, m, handle, mroles, f) ==
    LET unchanged == [roles |-> mroles, calls |-> <<>>, checked |-> FALSE]
    IN IF handle = NoHandle THEN unchanged
       ELSE IF TLE_TRUSTED \notin guildRoles[g] THEN unchanged
       ELSE IF TLE_TRUSTED \in mroles THEN unchanged
       ELSE IF f = "hist" THEN [unchanged EXCEPT !.checked = TRUE]
       ELSE IF \E i \in 1..Len(cfHist[handle]) :
                    /\ cfHist[handle][i].newRating >= TrustedRating
                    /\ cfHist[handle][i].beforeCutoff
            THEN IF f = "trusted"
                 THEN [roles |-> mroles,
                       calls |-> << Call(m, "add", {TLE_TRUSTED}, FALSE) >>,
                       checked |-> TRUE]
                 ELSE [roles |-> mroles \cup {TLE_TRUSTED},
                       calls |-> << Call(m, "add", {TLE_TRUSTED}, TRUE) >>,
                       checked |-> TRUE]
            ELSE [unchanged EXCEPT !.checked = TRUE]

LowRanks == {"Newbie", "Pupil", "Specialist", "Expert"}

AboveNewbie(role_to_assign) ==
    role_to_assign # NoRole /\ role_to_assign # "Newbie"

\* "role_to_assign.name not in ['Newbie', 'Pupil', 'Specialist', 'Expert']"
AboveExpert(role_to_assign) ==
    role_to_assign # NoRole /\ role_to_assign \notin LowRanks

RoleNamesToRemoveAlwaysPurgatory(role_to_assign) ==
    (RatedTitles \ {role_to_assign}) \cup {TLE_PURGATORY}

RoleNamesToRemoveRanksOnly(role_to_assign) ==
    RatedTitles \ {role_to_assign}

RoleNamesToRemoveOnUnlinkOnly(role_to_assign) ==
    IF role_to_assign = NoRole THEN RatedTitles ELSE {}

\* role_names_to_remove of update_member_rank_role
RoleNamesToRemove(role_to_assign) ==
    (RatedTitles \ {role_to_assign})
        \cup (IF AboveExpert(role_to_assign) THEN {TLE_PURGATORY} ELSE {})

IssueOrderAddFirst(rmCalls, addCalls) == addCalls \o rmCalls

\* remove_roles is awaited before add_roles is called
IssueOrder(rmCalls, addCalls) == rmCalls \o addCalls

\* Handles.update_member_rank_role; role_to_assign is a role name or NoRole.
\* invoked: maybe_add_trusted_role was called; checked: it called
\* cf.user.rating for the member's handle.
update_member_rank_role(g, m, handle, mroles, role_to_assign, f) ==
    Bind(IF AboveExpert(role_to_assign)
         THEN maybe_add_trusted_role(g, m, handle, mroles, f)
         ELSE [roles |-> mroles, calls |-> <<>>, checked |-> FALSE],
         LAMBDA t :
    LET names == RoleNamesToRemove(role_to_assign)
        to_remove == t.roles \cap names
        rmCalls == IF to_remove = {} THEN <<>>
                   ELSE << [Call(m, "remove", to_remove, f # "remove")
                              EXCEPT !.held = t.roles,
                                     !.target = role_to_assign] >>
        rmFailed == to_remove # {} /\ f = "remove"
        afterRm == IF rmFailed THEN t.roles ELSE t.roles \ to_remove
        needAdd == role_to_assign # NoRole /\ role_to_assign \notin afterRm
        addFailed == needAdd /\ f = "add"
        invoked == AboveExpert(role_to_assign)
    IN IF rmFailed
       THEN [roles |-> afterRm, calls |-> t.calls \o rmCalls,
             raised |-> TRUE, checked |-> t.checked, invoked |-> invoked]
       ELSE IF ~needAdd
       THEN [roles |-> afterRm, calls |-> t.calls \o rmCalls,
             raised |-> FALSE, checked |-> t.checked, invoked |-> invoked]
       ELSE [roles |-> IF addFailed THEN afterRm
                       ELSE afterRm \cup {role_to_assign},
             calls |-> t.calls \o IssueOrder(rmCalls,
                          << Call(m, "add", {role_to_assign}, ~addFailed) >>),
             raised |-> addFailed, checked |-> t.checked,
             invoked |-> invoked])

\* "max_rating = user.maxRating if user.maxRating else user.rating" and the
\* rank it resolves to (the role name wanted for the member, or NoRole)
BestRating(user) == IF Truthy(user.maxRating) THEN user.maxRating ELSE user.rating

DesiredTitle(user) ==
    LET rank == rating2rank(BestRating(user))
    IN IF rank = UNRATED_RANK THEN NoRole ELSE rank.title

\* ------------------------------------------------------ achievement ledger
\* user_db.get_user_achievement / update_user_achievement on one guild's rows
get_user_achievement(led, m) == led[m]

update_user_achievement(led, m, max_rating, rank_title) ==
    [led EXCEPT ![m] = [max |-> max_rating, rank |-> rank_title]]

AchievementOfEqualCounts(old, new_rating) ==
    LET new_rank == rating2rank(new_rating).title
        is_new_max == old.max = None \/ new_rating >= old.max
        old_max == IF is_new_max /\ ~Truthy(old.max) THEN new_rating ELSE old.max
        is_new_rank ==
            IF old.rank = NoRank THEN TRUE
            ELSE IF RankIndex(old.rank) = 0 \/ RankIndex(new_rank) = 0 THEN FALSE
            ELSE RankIndex(new_rank) > RankIndex(old.rank)
        current_max == IF Truthy(old_max) THEN Max2(new_rating, old_max)
                       ELSE new_rating
        current_highest_rank ==
            IF is_new_rank \/ old.rank = NoRank THEN new_rank ELSE old.rank
        write == is_new_max \/ is_new_rank
    IN [is_new_max |-> is_new_max, is_new_rank |-> is_new_rank, write |-> write,
        record |-> IF write THEN [max |-> current_max, rank |-> current_highest_rank]
                   ELSE old,
        announce |-> write /\ new_rating >= PupilRating]

AchievementOfSameRankCounts(old, new_rating) ==
    LET new_rank == rating2rank(new_rating).title
        is_new_max == old.max = None \/ new_rating > old.max
        old_max == IF is_new_max /\ ~Truthy(old.max) THEN new_rating ELSE old.max
        is_new_rank ==
            IF old.rank = NoRank THEN TRUE
            ELSE IF RankIndex(old.rank) = 0 \/ RankIndex(new_rank) = 0 THEN FALSE
            ELSE RankIndex(new_rank) >= RankIndex(old.rank)
        current_max == IF Truthy(old_max) THEN Max2(new_rating, old_max)
                       ELSE new_rating
        current_highest_rank ==
            IF is_new_rank \/ old.rank = NoRank THEN new_rank ELSE old.rank
        write == is_new_max \/ is_new_rank
    IN [is_new_max |-> is_new_max, is_new_rank |-> is_new_rank, write |-> write,
        record |-> IF write THEN [max |-> current_max, rank |-> current_highest_rank]
                   ELSE old,
        announce |-> write /\ new_rating >= PupilRating]

AchievementOfKeepsOldRank(old, new_rating) ==
    LET new_rank == rating2rank(new_rating).title
        is_new_max == old.max = None \/ new_rating > old.max
        old_max == IF is_new_max /\ ~Truthy(old.max) THEN new_rating ELSE old.max
        is_new_rank ==
            IF old.rank = NoRank THEN TRUE
            ELSE IF RankIndex(old.rank) = 0 \/ RankIndex(new_rank) = 0 THEN FALSE
            ELSE RankIndex(new_rank) > RankIndex(old.rank)
        current_max == IF Truthy(old_max) THEN Max2(new_rating, old_max)
                       ELSE new_rating
        current_highest_rank ==
            IF old.rank = NoRank THEN new_rank ELSE old.rank
        write == is_new_max \/ is_new_rank
    IN [is_new_max |-> is_new_max, is_new_rank |-> is_new_rank, write |-> write,
        record |-> IF write THEN [max |-> current_max, rank |-> current_highest_rank]
                   ELSE old,
        announce |-> write /\ new_rating >= PupilRating]

AchievementOfAnnounceUnflagged(old, new_rating) ==
    LET new_rank == rating2rank(new_rating).title
        is_new_max == old.max = None \/ new_rating > old.max
        old_max == IF is_new_max /\ ~Truthy(old.max) THEN new_rating ELSE old.max
        is_new_rank ==
            IF old.rank = NoRank THEN TRUE
            ELSE IF RankIndex(old.rank) = 0 \/ RankIndex(new_rank) = 0 THEN FALSE
            ELSE RankIndex(new_rank) > RankIndex(old.rank)
        current_max == IF Truthy(old_max) THEN Max2(new_rating, old_max)
                       ELSE new_rating
        current_highest_rank ==
            IF is_new_rank \/ old.rank = NoRank THEN new_rank ELSE old.rank
        write == is_new_max \/ is_new_rank
    IN [is_new_max |-> is_new_max, is_new_rank |-> is_new_rank, write |-> write,
        record |-> IF write THEN [max |-> current_max, rank |-> current_highest_rank]
                   ELSE old,
        announce |-> new_rating >= PupilRating]

AchievementOfNoThreshold(old, new_rating) ==
    LET new_rank == rating2rank(new_rating).title
        is_new_max == old.max = None \/ new_rating > old.max
        old_max == IF is_new_max /\ ~Truthy(old.max) THEN new_rating ELSE old.max
        is_new_rank ==
            IF old.rank = NoRank THEN TRUE
            ELSE IF RankIndex(old.rank) = 0 \/ RankIndex(new_rank) = 0 THEN FALSE
            ELSE RankIndex(new_rank) > RankIndex(old.rank)
        current_max == IF Truthy(old_max) THEN Max2(new_rating, old_max)
                       ELSE new_rating
        current_highest_rank ==
            IF is_new_rank \/ old.rank = NoRank THEN new_rank ELSE old.rank
        write == is_new_max \/ is_new_rank
    IN [is_new_max |-> is_new_max, is_new_rank |-> is_new_rank, write |-> write,
        record |-> IF write THEN [max |-> current_max, rank |-> current_highest_rank]
                   ELSE old,
        announce |-> write]

\* One iteration of the loop of Handles._check_and_update_achievements
AchievementOf(old, new_rating) ==
    LET new_rank == rating2rank(new_rating).title
        is_new_max == old.max = None \/ new_rating > old.max
        old_max == IF is_new_max /\ ~Truthy(old.max) THEN new_rating ELSE old.max
        is_new_rank ==
            IF old.rank = NoRank THEN TRUE
            ELSE IF RankIndex(old.rank) = 0 \/ RankIndex(new_rank) = 0 THEN FALSE
            ELSE RankIndex(new_rank) > RankIndex(old.rank)
        current_max == IF Truthy(old_max) THEN Max2(new_rating, old_max)
                       ELSE new_rating
        current_highest_rank ==
            IF is_new_rank \/ old.rank = NoRank THEN new_rank ELSE old.rank
        write == is_new_max \/ is_new_rank
    IN [is_new_max |-> is_new_max, is_new_rank |-> is_new_rank, write |-> write,
        record |-> IF write THEN [max |-> current_max, rank |-> current_highest_rank]
                   ELSE old,
        announce |-> write /\ new_rating >= PupilRating]

ObservedAllLinked(g, batch) ==
    {m \in Members : handleOf[g][m] # NoHandle /\ m \in present[g]}

\* Members of the guild that _check_and_update_achievements processes
Observed(g, batch) ==
    {m \in Members : /\ handleOf[g][m] # NoHandle
                     /\ m \in present[g]
                     /\ batch[handleOf[g][m]] # None}

WriteFailureSwallowed(dbFail, writes) == FALSE

\* update_user_achievement raises for member dbFail (0: for nobody): the
\* exception leaves the loop and _check_and_update_achievements
WriteRaises(dbFail, writes) == dbFail \in writes

\* Handles._check_and_update_achievements on guild g; the pairs are taken in
\* the order of get_handles_for_guild
check_and_update_achievements(g, batch, dbFail) ==
    LET obs == Observed(g, batch)
        one(m) == AchievementOf(get_user_achievement(ledger[g], m),
                                batch[handleOf[g][m]])
        raised == WriteRaises(dbFail, {m \in obs : one(m).write})
        reached(m) == m \in obs /\ (raised => m <= dbFail)
        stored(m) == reached(m) /\ one(m).write /\ m # dbFail
    IN [ledger |-> [m \in Members |->
                        IF stored(m)
                        THEN update_user_achievement(ledger[g], m,
                                 one(m).record.max, one(m).record.rank)[m]
                        ELSE ledger[g][m]],
        written |-> {m \in Members : stored(m)},
        processed |-> {m \in Members : reached(m)},
        new_max |-> {m \in Members : reached(m) /\ one(m).is_new_max},
        new_rank |-> {m \in Members : reached(m) /\ one(m).is_new_rank},
        flagged |-> {m \in Members : reached(m) /\ (one(m).is_new_max
                                                      \/ one(m).is_new_rank)},
        announce |-> IF raised THEN {} ELSE {m \in obs : one(m).announce},
        raised |-> raised]

\* The members for which the ledger write of one application can fail
PersistFails(g, batch) ==
    {0} \cup {m \in Observed(g, batch) :
                AchievementOf(get_user_achievement(ledger[g], m),
                              batch[handleOf[g][m]]).write}

\* The achievement values _set and sync_achievements take from the history
HistMax(hist) == SeqMax([i \in 1..Len(hist) |-> hist[i].newRating])

HistHighestRank(hist) ==
    LET ranks == [i \in 1..Len(hist) |-> rating2rank(hist[i].newRating)]
        best == CHOOSE i \in 1..Len(hist) :
                    \A j \in 1..Len(hist) :
                        RankIndex(ranks[j].title) <= RankIndex(ranks[i].title)
    IN ranks[best]

\* ------------------------------------------------------------ _update_ranks
\* user_db.get_handles_for_guild: (user_id, handle) pairs in id order
get_handles_for_guild(g) ==
    LET ms == SortedSeq({m \in Members : handleOf[g][m] # NoHandle})
    IN [i \in 1..Len(ms) |-> << ms[i], handleOf[g][ms[i]] >>]

\* member_handles of _update_ranks: the pairs whose member is in the guild
MemberHandles(pres, res) ==
    SelectSeq(res, LAMBDA p : p[1] \in pres)

\* required_roles and missing_roles of _update_ranks
RequiredRoles(mh) ==
    {DesiredTitle(UserInfo(mh[i][2])) : i \in 1..Len(mh)} \ {NoRole}

MissingRoles(g, mh) == RequiredRoles(mh) \ guildRoles[g]

\* The loop of _update_ranks over (member, role name) pairs; it stops at the
\* first member whose role mutation raises.
RECURSIVE RanksLoop(_, _, _, _)
RanksLoop(g, todo, rolesG, fails) ==
    IF todo = <<>>
    THEN [roles |-> rolesG, calls |-> <<>>, raised |-> FALSE,
          lookups |-> {}, invoked |-> {}]
    ELSE Bind(update_member_rank_role(g, todo[1][1], handleOf[g][todo[1][1]],
                  rolesG[todo[1][1]], todo[1][2], fails[todo[1][1]]),
              LAMBDA r :
           LET m == todo[1][1]
               lk == IF r.checked THEN {m} ELSE {}
               iv == IF r.invoked THEN {m} ELSE {}
           IN IF r.raised
              THEN [roles |-> [rolesG EXCEPT ![m] = r.roles],
                    calls |-> r.calls, raised |-> TRUE,
                    lookups |-> lk, invoked |-> iv]
              ELSE Bind(RanksLoop(g, Tail(todo),
                            [rolesG EXCEPT ![m] = r.roles], fails),
                        LAMBDA rest :
                     [roles |-> rest.roles, calls |-> r.calls \o rest.calls,
                      raised |-> rest.raised,
                      lookups |-> lk \cup rest.lookups,
                      invoked |-> iv \cup rest.invoked]))

NoWant == [m \in Members |-> "-"]

WantOf(mh) ==
    [m \in Members |->
        IF \E i \in 1..Len(mh) : mh[i][1] = m
        THEN DesiredTitle(UserInfo(
                 mh[CHOOSE i \in 1..Len(mh) : mh[i][1] = m][2]))
        ELSE "-"]

NoMemberHandlesIgnored(mh) == FALSE

\* "if not member_handles" of _update_ranks
NoMemberHandles(mh) == mh = <<>>

update_ranks_skip_missing(g, pres, res, fails) ==
    LET mh == MemberHandles(pres, res)
        missing == MissingRoles(g, mh)
        have == SelectSeq(mh, LAMBDA p :
                    DesiredTitle(UserInfo(p[2])) \notin missing)
        todo == [i \in 1..Len(have) |->
                    << have[i][1], DesiredTitle(UserInfo(have[i][2])) >>]
    IN Bind(RanksLoop(g, todo, roles[g], fails), LAMBDA loop :
         [outcome |-> IF mh = <<>> \/ missing # {} THEN "HandleCogError"
                      ELSE IF loop.raised THEN "Forbidden" ELSE "ok",
          roles |-> loop.roles, calls |-> loop.calls,
          want |-> WantOf(mh), missing |-> missing,
          lookups |-> loop.lookups, invoked |-> loop.invoked,
          info_calls |-> IF mh = <<>> THEN 0 ELSE 1])

\* Handles._update_ranks(guild, res); pres is the guild's member list
update_ranks(g, pres, res, fails) ==
    LET mh == MemberHandles(pres, res)
        missing == MissingRoles(g, mh)
        todo == [i \in 1..Len(mh) |->
                    << mh[i][1], DesiredTitle(UserInfo(mh[i][2])) >>]
    IN IF NoMemberHandles(mh)
       THEN [outcome |-> "HandleCogError", roles |-> roles[g], calls |-> <<>>,
             want |-> NoWant, missing |-> {}, lookups |-> {}, invoked |-> {},
             info_calls |-> 0]
       ELSE IF missing # {}
       THEN [outcome |-> "HandleCogError", roles |-> roles[g], calls |-> <<>>,
             want |-> WantOf(mh), missing |-> missing, lookups |-> {},
             invoked |-> {}, info_calls |-> 1]
       ELSE Bind(RanksLoop(g, todo, roles[g], fails), LAMBDA loop :
              [outcome |-> IF loop.raised THEN "Forbidden" ELSE "ok",
               roles |-> loop.roles, calls |-> loop.calls,
               want |-> WantOf(mh), missing |-> {},
               lookups |-> loop.lookups, invoked |-> loop.invoked,
               info_calls |-> 1])

\* -------------------------------------------------------- sync_achievements
SyncFailureUncounted(caught) == 0

\* "except (cf.NotFoundError, cf.CodeforcesApiError): failed += 1"
SyncFailureCounted(caught) == IF caught THEN 1 ELSE 0

\* The per-user body of the loop of Handles.sync_achievements
SyncOne(g, m, h, led, mroles, f) ==
    LET user == UserInfo(h)
        hist == cfHist[h]
        led2 == IF hist # <<>>
                THEN update_user_achievement(led, m, HistMax(hist),
                                             HistHighestRank(hist).title)
                ELSE IF Truthy(user.maxRating) /\ user.maxRating > 0
                        /\ rating2rank(user.maxRating) # UNRATED_RANK
                THEN update_user_achievement(led, m, user.maxRating,
                                             rating2rank(user.maxRating).title)
                ELSE led
        title == DesiredTitle(user)
        role_to_assign == IF title \in guildRoles[g] THEN title ELSE NoRole
        touch == /\ m \in present[g]
                 /\ (role_to_assign # NoRole \/ mroles \cap RatedTitles # {})
        synced == IF hist # <<>> THEN 1
                  ELSE IF Truthy(user.maxRating) /\ user.maxRating > 0
                          /\ rating2rank(user.maxRating) # UNRATED_RANK
                  THEN 1 ELSE 0
    IN IF f = "api"
       THEN [ledger |-> led, roles |-> mroles, calls |-> <<>>, raised |-> FALSE,
             count |-> "failed", missing |-> FALSE,
             synced |-> 0, skipped |-> 0,
             failed |-> SyncFailureCounted(TRUE)]
       ELSE Bind(update_member_rank_role(g, m, h, mroles, role_to_assign, f),
                 LAMBDA r :
              [ledger |-> led2,
               roles |-> IF touch THEN r.roles ELSE mroles,
               calls |-> IF touch THEN r.calls ELSE <<>>,
               raised |-> touch /\ r.raised,
               count |-> IF hist # <<>> \/ led2 # led THEN "synced"
                         ELSE "skipped",
               missing |-> m \in present[g] /\ title # NoRole
                              /\ title \notin guildRoles[g],
               synced |-> synced, skipped |-> 1 - synced,
               failed |-> SyncFailureCounted(FALSE)])

RECURSIVE SyncLoop(_, _, _, _, _)
SyncLoop(g, pairs, led, rolesG, fails) ==
    IF pairs = <<>>
    THEN [ledger |-> led, roles |-> rolesG, calls |-> <<>>, raised |-> FALSE,
          missing |-> {}, synced |-> 0, skipped |-> 0, failed |-> 0]
    ELSE Bind(SyncOne(g, pairs[1][1], pairs[1][2], led, rolesG[pairs[1][1]],
                      fails[pairs[1][1]]),
              LAMBDA r :
           LET m == pairs[1][1]
               rolesG2 == [rolesG EXCEPT ![m] = r.roles]
               miss == IF r.missing THEN {m} ELSE {}
           IN IF r.raised
              THEN [ledger |-> r.ledger, roles |-> rolesG2, calls |-> r.calls,
                    raised |-> TRUE, missing |-> miss,
                    synced |-> r.synced, skipped |-> r.skipped,
                    failed |-> r.failed]
              ELSE Bind(SyncLoop(g, Tail(pairs), r.ledger, rolesG2, fails),
                        LAMBDA rest :
                     [ledger |-> rest.ledger, roles |-> rest.roles,
                      calls |-> r.calls \o rest.calls, raised |-> rest.raised,
                      missing |-> miss \cup rest.missing,
                      synced |-> r.synced + rest.synced,
                      skipped |-> r.skipped + rest.skipped,
                      failed |-> r.failed + rest.failed]))

\* ------------------------------------------------------------------- _set
HandleTakenNever(g, m, h) == FALSE

\* user_db.set_handle: fails when the handle belongs to another user
HandleTaken(g, m, h) == \E o \in Members \ {m} : handleOf[g][o] = h

LedgerRolledBack(g, written) == ledger[g]

\* The guild's ledger when _set raises for a missing rank role: the raise
\* comes after update_user_achievement and nothing undoes the write
LedgerAtRoleError(g, written) == written

\* Handles._set after set_handle succeeded: the ledger write and the role
set_member(g, m, h, f) ==
    LET user == UserInfo(h)
        hist == cfHist[h]
        useHist == f # "api" /\ hist # <<>>
        fallbackMax == IF Truthy(user.maxRating) THEN user.maxRating
                       ELSE IF Truthy(user.rating) THEN user.rating ELSE 0
        max_rating_from_history == IF useHist THEN HistMax(hist) ELSE fallbackMax
        highest_rank_title ==
            IF useHist THEN HistHighestRank(hist).title
            ELSE IF UserRank(user) # UNRATED_RANK THEN UserRank(user).title
            ELSE NoRank
        led2 == IF Truthy(max_rating_from_history) /\ highest_rank_title # NoRank
                THEN update_user_achievement(ledger[g], m,
                         max_rating_from_history, highest_rank_title)
                ELSE ledger[g]
        title == DesiredTitle(user)
        missing == title # NoRole /\ title \notin guildRoles[g]
    IN IF missing
       THEN [ledger |-> LedgerAtRoleError(g, led2), roles |-> roles[g][m],
             calls |-> <<>>,
             outcome |-> "HandleCogError", missing |-> {m}, want |-> title]
       ELSE Bind(update_member_rank_role(g, m, h, roles[g][m], title,
                                         IF f = "api" THEN "none" ELSE f),
                 LAMBDA r :
              [ledger |-> led2, roles |-> r.roles, calls |-> r.calls,
               outcome |-> IF r.raised THEN "Forbidden" ELSE "ok",
               missing |-> {}, want |-> title])

\* ------------------------------------------------------------ initial state
AllLinked ==
    [g \in Guilds |-> [m \in Members |-> IF m = 1 THEN "h1" ELSE "h2"]]

Change(r, old) == [newRating |-> r, beforeCutoff |-> old]

NoRun == [todo |-> <<>>, want |-> NoWant, repeat |-> FALSE, written |-> {}]

\* Record of what one step did: the operation and guild, how it ended, the role
\* mutation calls it issued, the role wanted for each member it covered, the
\* members whose wanted role does not exist, the members whose ledger row it
\* wrote and those it flagged, and whether it repeats the previous operation.
Rec(op, g, outcome, calls, want, missing, repeat) ==
    [op |-> op, g |-> g, outcome |-> outcome, calls |-> calls, want |-> want,
     missing |-> missing, repeat |-> repeat, written |-> {}, flagged |-> {},
     processed |-> {}, new_max |-> {}, new_rank |-> {}, announce |-> {},
     sent |-> {}, lookups |-> {}, invoked |-> {}, batch |-> NoBatch,
     before |-> [m \in Members |-> NoRecord], info_calls |-> 0,
     member |-> 0, handle |-> NoHandle,
     summary |-> [x \in Guilds |-> "none"], author |-> 0,
     joined |-> [x \in Members |-> None], cached |-> {},
     counts |-> [synced |-> 0, skipped |-> 0, failed |-> 0],
     cf_failed |-> {}]

Init ==
    /\ handleOf = AllLinked
    /\ present = [g \in Guilds |-> IF g = "g1" THEN {1, 2} ELSE {1}]
    /\ \E gr \in {RoleNames, RoleNames \ {"Pupil"}} :
          guildRoles = [g \in Guilds |-> IF g = "g1" THEN gr ELSE RoleNames]
    /\ roles = [g \in Guilds |-> [m \in Members |->
                    IF g = "g2" THEN {}
                    ELSE IF m = 1 THEN {"Newbie", TLE_PURGATORY} ELSE {"Newbie"}]]
    /\ \E h2 \in {<<>>, << Change(1300, TRUE) >>} :
          cfHist = [h \in Handles |->
                        IF h = "h1" THEN << Change(1950, TRUE) >>
                        ELSE IF h = "h2" THEN h2
                        ELSE << Change(1100, TRUE) >>]
    /\ ledger = [g \in Guilds |-> [m \in Members |-> NoRecord]]
    /\ autoRole \in {Guilds, {"g1"}}
    /\ rankupChannel = Guilds
    /\ queue = <<>>
    /\ evBatch = NoBatch
    /\ locked = FALSE
    /\ pc = [g \in Guilds |-> "idle"]
    /\ run = [g \in Guilds |-> NoRun]
    /\ achievements = [g \in Guilds |-> {}]
    /\ sent = [g \in Guilds |-> {}]
    /\ phaseLog = [g \in Guilds |-> <<>>]
    /\ interfered = [g \in Guilds |-> FALSE]
    /\ achSeen = [g \in Guilds |-> NoBatch]
    /\ last = Rec("init", "-", "ok", <<>>, NoWant, {}, FALSE)
    /\ nContests = 0
    /\ nRedeliver = 0
    /\ nOps = 0
    /\ identifying = {}
    /\ nIdentify = 0

\* ------------------------------------------------- rating-change listener
StagesRanksFirst == << "ranks", "persist", "notify" >>

\* The three blocks of update_for_guild, in the order the code runs them
Stages == << "persist", "ranks", "notify" >>

EntryPc(st) ==
    IF st = "persist" THEN "persist" ELSE IF st = "ranks" THEN "collect" ELSE "notify"

StageIndex(st) == CHOOSE i \in 1..Len(Stages) : Stages[i] = st

AfterStage(st) ==
    IF StageIndex(st) = Len(Stages) THEN "done"
    ELSE EntryPc(Stages[StageIndex(st) + 1])

GatherAllSucceed(p) == \A g \in Guilds : p[g] = "done"

GatherFailFast(p) ==
    \/ \E g \in Guilds : p[g] = "failed"
    \/ \A g \in Guilds : p[g] = "done"

\* asyncio.gather(..., return_exceptions=True): the handler goes on when every
\* pipeline has ended, by returning or by raising
GatherDone(p) == \A g \in Guilds : p[g] \in {"done", "failed"}

\* A pipeline between its achievement check and the first await after it
Quiet == \A g \in Guilds : pc[g] # "collect"

InRun(g) == pc[g] \in {"resolve", "reconcile"}

\* The remembered batch of a guild stays valid while nothing else writes the
\* guild's ledger rows, handle links or member list.
KeepAchSeen ==
    achSeen' = [g \in Guilds |->
                    IF /\ ledger'[g] = ledger[g]
                       /\ handleOf'[g] = handleOf[g]
                       /\ present'[g] = present[g]
                    THEN achSeen[g] ELSE NoBatch]

Batch(r1, r2) ==
    [h \in Handles |-> IF h = "h1" THEN r1 ELSE IF h = "h2" THEN r2 ELSE None]

Batches ==
    {Batch(None, r) : r \in NewRatings}
        \cup {Batch(1100, None), Batch(1300, 1950)}

MixedBatches == {Batch(None, 1100), Batch(1300, 1950)}

\* The rating service publishes a contest's rating changes
Contest(batch) ==
    /\ Quiet
    /\ nContests < MaxContests
    /\ nContests' = nContests + 1
    /\ cfHist' = [h \in Handles |->
                    IF batch[h] = None THEN cfHist[h]
                    ELSE Append(cfHist[h], Change(batch[h], FALSE))]
    /\ queue' = Append(queue, batch)
    /\ last' = Rec("contest", "-", "ok", <<>>, NoWant, {}, FALSE)
    /\ UNCHANGED << identifying, nIdentify,
                    handleOf, present, guildRoles, roles, ledger, autoRole,
                    rankupChannel, evBatch, locked, pc, run, achievements, sent,
                    phaseLog, interfered, achSeen, nRedeliver, nOps >>

\* The event source delivers the last batch once more
Redeliver ==
    /\ Quiet
    /\ nRedeliver < MaxRedeliver
    /\ evBatch # NoBatch
    /\ queue = <<>>
    /\ nRedeliver' = nRedeliver + 1
    /\ queue' = << evBatch >>
    /\ last' = Rec("redeliver", "-", "ok", <<>>, NoWant, {}, FALSE)
    /\ UNCHANGED << identifying, nIdentify,
                    handleOf, present, guildRoles, roles, cfHist, ledger,
                    autoRole, rankupChannel, evBatch, locked, pc, run,
                    achievements, sent, phaseLog, interfered, achSeen,
                    nContests, nOps >>

\* _on_rating_changes takes the lock and starts one pipeline per guild
EventStart ==
    /\ Quiet
    /\ ~locked
    /\ queue # <<>>
    /\ locked' = TRUE
    /\ evBatch' = Head(queue)
    /\ queue' = Tail(queue)
    /\ pc' = [g \in Guilds |-> EntryPc(Stages[1])]
    /\ run' = [g \in Guilds |-> NoRun]
    /\ achievements' = [g \in Guilds |-> {}]
    /\ sent' = [g \in Guilds |-> {}]
    /\ phaseLog' = [g \in Guilds |-> <<>>]
    /\ interfered' = [g \in Guilds |-> FALSE]
    /\ last' = Rec("start", "-", "ok", <<>>, NoWant, {}, FALSE)
    /\ UNCHANGED << identifying, nIdentify,
                    handleOf, present, guildRoles, roles, cfHist, ledger,
                    autoRole, rankupChannel, achSeen, nContests, nRedeliver,
                    nOps >>

\* update_for_guild: _check_and_update_achievements
EvPersist(g) ==
    /\ pc[g] = "persist"
    /\ \E dbFail \in PersistFails(g, evBatch) :
       \E r \in {check_and_update_achievements(g, evBatch, dbFail)} :
          /\ ledger' = [ledger EXCEPT ![g] = r.ledger]
          /\ achievements' = [achievements EXCEPT ![g] = r.announce]
          /\ last' = [Rec("persist", g,
                          IF r.raised THEN "DatabaseError" ELSE "ok",
                          <<>>, NoWant, {}, achSeen[g] = evBatch)
                        EXCEPT !.written = r.written, !.flagged = r.flagged,
                               !.processed = r.processed,
                               !.new_max = r.new_max, !.new_rank = r.new_rank,
                               !.announce = r.announce, !.batch = evBatch,
                               !.before = ledger[g]]
          /\ achSeen' = [achSeen EXCEPT ![g] =
                            IF r.raised THEN NoBatch ELSE evBatch]
          /\ run' = [run EXCEPT ![g].repeat = (achSeen[g] = evBatch),
                                ![g].written = r.written]
          /\ pc' = [pc EXCEPT ![g] = IF r.raised THEN "failed"
                                      ELSE AfterStage("persist")]
    /\ phaseLog' = [phaseLog EXCEPT ![g] = Append(@, "PERSIST")]
    /\ UNCHANGED << identifying, nIdentify,
                    handleOf, present, guildRoles, roles, cfHist, autoRole,
                    rankupChannel, queue, evBatch, locked, sent, interfered,
                    nContests, nRedeliver, nOps >>

HandleCogErrorEscapes == "failed"

\* "with contextlib.suppress(HandleCogError)" around _update_ranks_all: the
\* pipeline goes on with what follows the ranks block
HandleCogErrorSuppressed == AfterStage("ranks")

RunsRanksAlways(g) == TRUE

\* "if cf_common.user_db.has_auto_role_update_enabled(guild.id)"
RunsRanks(g) == g \in autoRole

\* update_for_guild: has_auto_role_update_enabled and the start of
\* _update_ranks_all, up to the call of cf.user.info
EvCollect(g) ==
    /\ pc[g] = "collect"
    /\ LET mh == MemberHandles(present[g], get_handles_for_guild(g))
       IN IF ~RunsRanks(g)
          THEN /\ pc' = [pc EXCEPT ![g] = AfterStage("ranks")]
               /\ UNCHANGED << run, phaseLog >>
               /\ last' = Rec("collect", g, "off", <<>>, NoWant, {}, FALSE)
          ELSE IF NoMemberHandles(mh)
          THEN /\ pc' = [pc EXCEPT ![g] = HandleCogErrorSuppressed]
               /\ phaseLog' = [phaseLog EXCEPT ![g] = Append(@, "COLLECT")]
               /\ UNCHANGED run
               /\ last' = Rec("collect", g, "HandleCogError", <<>>, NoWant, {},
                              FALSE)
          ELSE /\ pc' = [pc EXCEPT ![g] = "resolve"]
               /\ phaseLog' = [phaseLog EXCEPT ![g] = Append(@, "COLLECT")]
               /\ run' = [run EXCEPT ![g].todo = mh]
               /\ last' = [Rec("collect", g, "ok", <<>>, NoWant, {}, FALSE)
                             EXCEPT !.info_calls = 1]
    /\ UNCHANGED << identifying, nIdentify,
                    handleOf, present, guildRoles, roles, cfHist, ledger,
                    autoRole, rankupChannel, queue, evBatch, locked,
                    achievements, sent, interfered, achSeen, nContests,
                    nRedeliver, nOps >>

\* _update_ranks: cf.user.info answers; required and missing roles
EvResolve(g) ==
    /\ Quiet
    /\ pc[g] = "resolve"
    /\ \E apiOk \in BOOLEAN :
        LET mh == run[g].todo
            want == WantOf(mh)
            missing == MissingRoles(g, mh)
        IN IF ~apiOk
           THEN /\ pc' = [pc EXCEPT ![g] = "failed"]
                /\ run' = [run EXCEPT ![g].todo = <<>>]
                /\ last' = Rec("resolve", g, "CodeforcesApiError", <<>>, NoWant,
                               {}, FALSE)
           ELSE IF missing # {}
           THEN /\ pc' = [pc EXCEPT ![g] = HandleCogErrorSuppressed]
                /\ run' = [run EXCEPT ![g].todo = <<>>, ![g].want = want]
                /\ last' = Rec("resolve", g, "HandleCogError", <<>>, want,
                               {m \in Members : want[m] \in missing}, FALSE)
           ELSE /\ pc' = [pc EXCEPT ![g] = "reconcile"]
                /\ run' = [run EXCEPT
                             ![g].todo = [i \in 1..Len(mh) |->
                                            << mh[i][1], want[mh[i][1]] >>],
                             ![g].want = want]
                /\ last' = Rec("resolve", g, "ok", <<>>, want, {}, FALSE)
    /\ phaseLog' = [phaseLog EXCEPT ![g] = Append(@, "RESOLVE")]
    /\ UNCHANGED << identifying, nIdentify,
                    handleOf, present, guildRoles, roles, cfHist, ledger,
                    autoRole, rankupChannel, queue, evBatch, locked,
                    achievements, sent, interfered, achSeen, nContests,
                    nRedeliver, nOps >>

RoleFails == FailModes \ {"api"}

\* One failure per operation: failure mode f while member fm is processed
OneFail(fm, f) == [m \in Members |-> IF m = fm THEN f ELSE "none"]

\* _update_ranks: update_member_rank_role for the next member of the loop
EvReconcile(g) ==
    /\ Quiet
    /\ pc[g] = "reconcile"
    /\ run[g].todo # <<>>
    /\ \E f \in RoleFails :
        \E m \in {run[g].todo[1][1]}, rest \in {Tail(run[g].todo)} :
        \E r \in {update_member_rank_role(g, m, handleOf[g][m], roles[g][m],
                                            run[g].todo[1][2], f)} :
           /\ roles' = [roles EXCEPT ![g][m] = r.roles]
           /\ run' = [run EXCEPT ![g].todo = IF r.raised THEN <<>> ELSE rest]
           /\ pc' = [pc EXCEPT ![g] =
                        IF r.raised THEN "failed"
                        ELSE IF rest = <<>> THEN AfterStage("ranks")
                        ELSE "reconcile"]
           /\ last' = [Rec("reconcile", g,
                           IF r.raised THEN "Forbidden"
                           ELSE IF rest = <<>> THEN "ok" ELSE "more",
                           r.calls, run[g].want, {}, FALSE)
                         EXCEPT !.lookups = IF r.checked THEN {m} ELSE {},
                                !.invoked = IF r.invoked THEN {m} ELSE {}]
    /\ phaseLog' = [phaseLog EXCEPT ![g] =
                      IF @ # <<>> /\ @[Len(@)] = "RECONCILE" THEN @
                      ELSE Append(@, "RECONCILE")]
    /\ UNCHANGED << identifying, nIdentify,
                    handleOf, present, guildRoles, cfHist, ledger, autoRole,
                    rankupChannel, queue, evBatch, locked, achievements, sent,
                    interfered, achSeen, nContests, nRedeliver, nOps >>

\* update_for_guild: the achievement embeds are sent to the rankup channel
EvNotify(g) ==
    /\ Quiet
    /\ pc[g] = "notify"
    /\ \E sendOk \in BOOLEAN :
        IF g \in rankupChannel /\ achievements[g] # {}
        THEN IF sendOk
             THEN /\ sent' = [sent EXCEPT ![g] = achievements[g]]
                  /\ pc' = [pc EXCEPT ![g] = AfterStage("notify")]
                  /\ last' = Rec("notify", g, "ok", <<>>, NoWant, {}, FALSE)
             ELSE /\ pc' = [pc EXCEPT ![g] = "failed"]
                  /\ last' = Rec("notify", g, "HTTPException", <<>>, NoWant, {},
                                 FALSE)
                  /\ UNCHANGED sent
        ELSE /\ sendOk
             /\ pc' = [pc EXCEPT ![g] = AfterStage("notify")]
             /\ last' = Rec("notify", g, "none", <<>>, NoWant, {}, FALSE)
             /\ UNCHANGED sent
    /\ phaseLog' = [phaseLog EXCEPT ![g] = Append(@, "NOTIFY")]
    /\ UNCHANGED << identifying, nIdentify,
                    handleOf, present, guildRoles, roles, cfHist, ledger,
                    autoRole, rankupChannel, queue, evBatch, locked, run,
                    achievements, interfered, achSeen, nContests, nRedeliver,
                    nOps >>

\* What the handler keeps, per guild, of the list that gather returns: the
\* awaited list is not bound to a name, update_for_guild returns None, and the
\* handler only logs 'All guilds updated for contest ...'
GatherKept(p) == [g \in Guilds |-> "none"]

\* _on_rating_changes: gather returns, the handler logs and releases the lock
EvFinish ==
    /\ locked
    /\ GatherDone(pc)
    /\ locked' = FALSE
    /\ last' = [Rec("finish", "-", "ok", <<>>, NoWant, {}, FALSE)
                  EXCEPT !.summary = GatherKept(pc)]
    /\ UNCHANGED << identifying, nIdentify,
                    handleOf, present, guildRoles, roles, cfHist, ledger,
                    autoRole, rankupChannel, queue, evBatch, pc, run,
                    achievements, sent, phaseLog, interfered, achSeen,
                    nContests, nRedeliver, nOps >>

\* ---------------------------------------------------------------- commands
Interfere(g, calls) ==
    interfered' = [interfered EXCEPT ![g] = @ \/ (InRun(g) /\ calls # <<>>)]

\* `roleupdate now`: _update_ranks_all on the guild of the command
Now(g) ==
    /\ Quiet
    /\ nOps < MaxOps
    /\ nOps' = nOps + 1
    /\ \E fm \in Members, f \in RoleFails :
        \E r \in {update_ranks(g, present[g], get_handles_for_guild(g),
                                OneFail(fm, f))} :
           /\ roles' = [roles EXCEPT ![g] = r.roles]
           /\ Interfere(g, r.calls)
           /\ last' = [Rec("now", g, r.outcome, r.calls, r.want,
                           {m \in Members : r.want[m] \in r.missing},
                           last.op = "now" /\ last.g = g
                              /\ last.outcome = "ok")
                         EXCEPT !.lookups = r.lookups, !.invoked = r.invoked,
                                !.info_calls = r.info_calls]
    /\ UNCHANGED << identifying, nIdentify,
                    handleOf, present, guildRoles, cfHist, ledger, autoRole,
                    rankupChannel, queue, evBatch, locked, pc, run,
                    achievements, sent, phaseLog, achSeen, nContests,
                    nRedeliver >>

\* on_member_join: a linked user comes back to the guild
on_member_join(g, m) ==
    /\ Quiet
    /\ nOps < MaxOps
    /\ m \notin present[g]
    /\ nOps' = nOps + 1
    /\ present' = [present EXCEPT ![g] = @ \cup {m}]
    /\ IF handleOf[g][m] = NoHandle
       THEN /\ UNCHANGED << roles, interfered >>
            /\ last' = Rec("join", g, "ok", <<>>, NoWant, {}, FALSE)
       ELSE \E f \in RoleFails :
            \E r \in {update_ranks(g, present[g] \cup {m},
                                    << << m, handleOf[g][m] >> >>,
                                    OneFail(m, f))} :
               /\ roles' = [roles EXCEPT ![g] = r.roles]
               /\ Interfere(g, r.calls)
               /\ last' = [Rec("join", g, r.outcome, r.calls, r.want,
                               {x \in Members : r.want[x] \in r.missing},
                               FALSE)
                             EXCEPT !.lookups = r.lookups,
                                    !.invoked = r.invoked,
                                    !.info_calls = r.info_calls]
    /\ UNCHANGED << identifying, nIdentify,
                    handleOf, guildRoles, cfHist, ledger, autoRole,
                    rankupChannel, queue, evBatch, locked, pc, run,
                    achievements, sent, phaseLog, nContests, nRedeliver >>
    /\ KeepAchSeen

CachedBeforeLink(h) == {h}

\* What _set has stored with cache_cf_user when set_handle raises
\* UniqueConstraintFailed: the call comes after the try block
CachedByRefusedSet(h) == {}

\* `handle set`: Handles._set for a member of the guild
HandleSet(g, m, h) ==
    /\ Quiet
    /\ nOps < MaxOps
    /\ m \in present[g]
    /\ nOps' = nOps + 1
    /\ IF HandleTaken(g, m, h)
       THEN /\ UNCHANGED << handleOf, ledger, roles, interfered >>
            /\ last' = [Rec("set", g, "HandleCogError", <<>>, NoWant, {},
                            FALSE)
                          EXCEPT !.member = m, !.handle = h,
                                 !.cached = CachedByRefusedSet(h)]
       ELSE \E f \in FailModes :
              \E r \in {set_member(g, m, h, f)} :
                 /\ handleOf' = [handleOf EXCEPT ![g][m] = h]
                 /\ ledger' = [ledger EXCEPT ![g] = r.ledger]
                 /\ roles' = [roles EXCEPT ![g][m] = r.roles]
                 /\ Interfere(g, r.calls)
                 /\ last' = [Rec("set", g, r.outcome, r.calls,
                                 [NoWant EXCEPT ![m] = r.want], r.missing, FALSE)
                               EXCEPT !.written =
                                   IF r.ledger # ledger[g] THEN {m} ELSE {},
                                   !.member = m, !.handle = h,
                                   !.cached = {h}]
    /\ UNCHANGED << identifying, nIdentify,
                    present, guildRoles, cfHist, autoRole, rankupChannel, queue,
                    evBatch, locked, pc, run, achievements, sent, phaseLog,
                    nContests, nRedeliver >>
    /\ KeepAchSeen

\* The effect of Handles._set(ctx, member, user) inside the command op
SetStep(op, g, m, h) ==
    IF HandleTaken(g, m, h)
    THEN /\ UNCHANGED << handleOf, ledger, roles, interfered >>
         /\ last' = [Rec(op, g, "HandleCogError", <<>>, NoWant, {}, FALSE)
                       EXCEPT !.member = m, !.handle = h,
                              !.cached = CachedByRefusedSet(h)]
    ELSE \E f \in FailModes :
           \E r \in {set_member(g, m, h, f)} :
              /\ handleOf' = [handleOf EXCEPT ![g][m] = h]
              /\ ledger' = [ledger EXCEPT ![g] = r.ledger]
              /\ roles' = [roles EXCEPT ![g][m] = r.roles]
              /\ Interfere(g, r.calls)
              /\ last' = [Rec(op, g, r.outcome, r.calls,
                              [NoWant EXCEPT ![m] = r.want], r.missing, FALSE)
                            EXCEPT !.written =
                                IF r.ledger # ledger[g] THEN {m} ELSE {},
                                !.member = m, !.handle = h,
                                !.cached = {h}]

\* The two checks `handle identify` makes before it asks for a submission
IdentifyRefused(g, m, h) ==
    \/ handleOf[g][m] # NoHandle
    \/ \E o \in Members : handleOf[g][o] = h

\* `handle identify <handle>` by member m; verified: the compile error was
\* found among the handle's last submissions
Identify(g, m, h) ==
    /\ Quiet
    /\ nOps < MaxOps
    /\ m \in present[g]
    /\ nOps' = nOps + 1
    /\ IF IdentifyRefused(g, m, h)
       THEN /\ UNCHANGED << handleOf, ledger, roles, interfered >>
            /\ last' = [Rec("identify", g, "HandleCogError", <<>>, NoWant, {},
                            FALSE)
                          EXCEPT !.member = m, !.handle = h]
       ELSE \E verified \in BOOLEAN :
              IF verified
              THEN SetStep("identify", g, m, h)
              ELSE /\ UNCHANGED << handleOf, ledger, roles, interfered >>
                   /\ last' = [Rec("identify", g, "retry", <<>>, NoWant, {},
                                   FALSE)
                                 EXCEPT !.member = m, !.handle = h]
    /\ UNCHANGED << identifying, nIdentify,
                    present, guildRoles, cfHist, autoRole, rankupChannel, queue,
                    evBatch, locked, pc, run, achievements, sent, phaseLog,
                    nContests, nRedeliver >>
    /\ KeepAchSeen

\* identify up to its wait: the two checks, cf.user.info, the request for a
\* compile error and asyncio.sleep(60), during which other commands run
IdentifyAsk(g, m, h) ==
    /\ Quiet
    /\ nIdentify < MaxIdentify
    /\ m \in present[g]
    /\ nIdentify' = nIdentify + 1
    /\ IF IdentifyRefused(g, m, h)
       THEN /\ UNCHANGED identifying
            /\ last' = [Rec("identify", g, "HandleCogError", <<>>, NoWant, {},
                            FALSE)
                          EXCEPT !.member = m, !.handle = h]
       ELSE /\ identifying' = identifying \cup {[g |-> g, m |-> m, h |-> h]}
            /\ last' = [Rec("identify", g, "waiting", <<>>, NoWant, {}, FALSE)
                          EXCEPT !.member = m, !.handle = h, !.info_calls = 1]
    /\ UNCHANGED << handleOf, present, guildRoles, roles, cfHist, ledger,
                    autoRole, rankupChannel, queue, evBatch, locked, pc, run,
                    achievements, sent, phaseLog, interfered, achSeen,
                    nContests, nRedeliver, nOps >>

\* identify after its wait: cf.user.status, and _set if the compile error is
\* among the handle's submissions
IdentifySubmit(p) ==
    /\ Quiet
    /\ p \in identifying
    /\ identifying' = identifying \ {p}
    /\ \E verified \in BOOLEAN :
          IF verified
          THEN SetStep("submit", p.g, p.m, p.h)
          ELSE /\ UNCHANGED << handleOf, ledger, roles, interfered >>
               /\ last' = [Rec("submit", p.g, "retry", <<>>, NoWant, {}, FALSE)
                             EXCEPT !.member = p.m, !.handle = p.h]
    /\ UNCHANGED << present, guildRoles, cfHist, autoRole, rankupChannel, queue,
                    evBatch, locked, pc, run, achievements, sent, phaseLog,
                    nContests, nRedeliver, nOps, nIdentify >>
    /\ KeepAchSeen

\* `handle unmagic` by a linked member m; to is the handle that
\* cf.resolve_redirects answers for the member's handle, NoHandle for none
Unmagic(g, m, to) ==
    /\ Quiet
    /\ nOps < MaxOps
    /\ m \in present[g]
    /\ handleOf[g][m] # NoHandle
    /\ nOps' = nOps + 1
    /\ IF to = NoHandle
       THEN /\ UNCHANGED << handleOf, ledger, roles, interfered >>
            /\ last' = [Rec("unmagic", g, "failed", <<>>, NoWant, {}, FALSE)
                          EXCEPT !.member = m, !.handle = to]
       ELSE SetStep("unmagic", g, m, to)
    /\ UNCHANGED << identifying, nIdentify,
                    present, guildRoles, cfHist, autoRole, rankupChannel, queue,
                    evBatch, locked, pc, run, achievements, sent, phaseLog,
                    nContests, nRedeliver >>
    /\ KeepAchSeen

remove_handle_with_record(g, m) ==
    [handleOf |-> [handleOf EXCEPT ![g][m] = NoHandle],
     ledger |-> [ledger EXCEPT ![g][m] = NoRecord]]

\* user_db.remove_handle: the link goes, the achievement row stays
remove_handle(g, m) ==
    [handleOf |-> [handleOf EXCEPT ![g][m] = NoHandle], ledger |-> ledger]

\* `handle remove`: unlink a handle and take the rank roles away
HandleRemove(g, m) ==
    /\ Quiet
    /\ nOps < MaxOps
    /\ handleOf[g][m] # NoHandle
    /\ nOps' = nOps + 1
    /\ \E db \in {remove_handle(g, m)} :
          /\ handleOf' = db.handleOf
          /\ ledger' = db.ledger
    /\ IF m \notin present[g]
       THEN /\ UNCHANGED << roles, interfered >>
            /\ last' = [Rec("remove", g, "AttributeError", <<>>, NoWant, {},
                            FALSE)
                          EXCEPT !.member = m, !.handle = handleOf[g][m]]
       ELSE \E f \in {"none", "remove"} :
              \E r \in {update_member_rank_role(g, m, NoHandle, roles[g][m],
                                                  NoRole, f)} :
                 /\ roles' = [roles EXCEPT ![g][m] = r.roles]
                 /\ Interfere(g, r.calls)
                 /\ last' = [Rec("remove", g,
                                 IF r.raised THEN "Forbidden" ELSE "ok",
                                 r.calls, [NoWant EXCEPT ![m] = NoRole], {},
                                 FALSE)
                               EXCEPT !.member = m, !.handle = handleOf[g][m]]
    /\ UNCHANGED << identifying, nIdentify,
                    present, guildRoles, cfHist, autoRole,
                    rankupChannel, queue, evBatch, locked, pc, run,
                    achievements, sent, phaseLog, nContests, nRedeliver >>
    /\ KeepAchSeen

\* How add_roles can end in refer and grandfather
AddFails == {"none", "forbidden", "http"}

ReferBlockedSelfOnly(g, author, target) ==
    IF target = author THEN "HandleCogError" ELSE "go"

\* The checks of refer before it looks for the Trusted role
ReferBlocked(g, author, target) ==
    IF target = author THEN "HandleCogError"
    ELSE IF TLE_PURGATORY \in guildRoles[g]
            /\ TLE_PURGATORY \in roles[g][target]
    THEN "purgatory"
    ELSE "go"

\* `handle refer <target_user>` by member author
Refer(g, author, target) ==
    /\ Quiet
    /\ nOps < MaxOps
    /\ author \in present[g]
    /\ target \in present[g]
    /\ nOps' = nOps + 1
    /\ \E f \in AddFails :
        LET blocked == ReferBlocked(g, author, target)
            outcome == IF blocked # "go" THEN blocked
                       ELSE IF TLE_TRUSTED \notin guildRoles[g]
                       THEN "HandleCogError"
                       ELSE IF TLE_TRUSTED \in roles[g][target] THEN "already"
                       ELSE IF f = "none" THEN "ok" ELSE "HandleCogError"
            called == /\ blocked = "go"
                      /\ TLE_TRUSTED \in guildRoles[g]
                      /\ TLE_TRUSTED \notin roles[g][target]
            calls == IF called
                     THEN << Call(target, "add", {TLE_TRUSTED}, f = "none") >>
                     ELSE <<>>
        IN /\ f # "none" => called
           /\ roles' = [roles EXCEPT ![g][target] =
                           IF called /\ f = "none" THEN @ \cup {TLE_TRUSTED}
                           ELSE @]
           /\ Interfere(g, calls)
           /\ last' = [Rec("refer", g, outcome, calls, NoWant, {}, FALSE)
                         EXCEPT !.member = target, !.author = author]
    /\ UNCHANGED << identifying, nIdentify,
                    handleOf, present, guildRoles, cfHist, ledger, autoRole,
                    rankupChannel, queue, evBatch, locked, pc, run,
                    achievements, sent, phaseLog, achSeen, nContests,
                    nRedeliver >>

\* cutoff_date of grandfather, 2025-04-21 00:00 UTC, as a day number; a join
\* date is the day of member.joined_at, None when it is unknown
CutoffDate == 20250421

JoinDates == {20250420, 20250421, None}

EligibleWhateverJoinDate(g, mroles, joined_at) ==
    /\ ~(TLE_PURGATORY \in guildRoles[g] /\ TLE_PURGATORY \in mroles)
    /\ TLE_TRUSTED \notin mroles

\* The member passes the skips of grandfather's loop
Eligible(g, mroles, joined_at) ==
    /\ ~(TLE_PURGATORY \in guildRoles[g] /\ TLE_PURGATORY \in mroles)
    /\ joined_at # None
    /\ ~(joined_at >= CutoffDate)
    /\ TLE_TRUSTED \notin mroles

\* The loop of grandfather over members_to_process
RECURSIVE GrandLoop(_, _, _, _, _)
GrandLoop(g, todo, rolesG, joined, fails) ==
    IF todo = <<>>
    THEN [roles |-> rolesG, calls |-> <<>>, stopped |-> FALSE, processed |-> {}]
    ELSE LET m == todo[1]
             f == fails[m]
         IN IF ~Eligible(g, rolesG[m], joined[m])
            THEN Bind(GrandLoop(g, Tail(todo), rolesG, joined, fails),
                      LAMBDA rest :
                        [rest EXCEPT !.processed = @ \cup {m}])
            ELSE IF f = "forbidden"
            THEN [roles |-> rolesG,
                  calls |-> << Call(m, "add", {TLE_TRUSTED}, FALSE) >>,
                  stopped |-> TRUE, processed |-> {m}]
            ELSE Bind(GrandLoop(g, Tail(todo),
                          IF f = "none"
                          THEN [rolesG EXCEPT ![m] = @ \cup {TLE_TRUSTED}]
                          ELSE rolesG,
                          joined, fails),
                      LAMBDA rest :
                        [rest EXCEPT
                           !.calls = << Call(m, "add", {TLE_TRUSTED},
                                             f = "none") >> \o @,
                           !.processed = @ \cup {m}])

\* `handle grandfather`; joined gives member.joined_at for the guild's members
Grandfather(g) ==
    /\ Quiet
    /\ nOps < MaxOps
    /\ nOps' = nOps + 1
    /\ IF TLE_TRUSTED \notin guildRoles[g]
       THEN /\ UNCHANGED << roles, interfered >>
            /\ last' = Rec("grandfather", g, "HandleCogError", <<>>, NoWant,
                           {}, FALSE)
       ELSE \E joined \in [Members -> JoinDates], fm \in Members,
               f \in AddFails :
            \E r \in {GrandLoop(g, SortedSeq(present[g]), roles[g], joined,
                                 [m \in Members |->
                                     IF m = fm THEN f ELSE "none"])} :
               /\ roles' = [roles EXCEPT ![g] = r.roles]
               /\ Interfere(g, r.calls)
               /\ last' = [Rec("grandfather", g,
                               IF r.stopped THEN "stopped" ELSE "ok",
                               r.calls, NoWant, {}, FALSE)
                             EXCEPT !.processed = r.processed,
                                    !.joined = joined]
    /\ UNCHANGED << identifying, nIdentify,
                    handleOf, present, guildRoles, cfHist, ledger, autoRole,
                    rankupChannel, queue, evBatch, locked, pc, run,
                    achievements, sent, phaseLog, achSeen, nContests,
                    nRedeliver >>

\* `sync_achievements` without a member argument
SyncAchievements(g) ==
    /\ Quiet
    /\ nOps < MaxOps
    /\ get_handles_for_guild(g) # <<>>
    /\ nOps' = nOps + 1
    /\ \E fm \in Members, f \in FailModes :
        \E r \in {SyncLoop(g, get_handles_for_guild(g), ledger[g], roles[g],
                            OneFail(fm, f))} :
           /\ ledger' = [ledger EXCEPT ![g] = r.ledger]
           /\ roles' = [roles EXCEPT ![g] = r.roles]
           /\ Interfere(g, r.calls)
           /\ last' = [Rec("sync", g, IF r.raised THEN "Forbidden" ELSE "ok",
                           r.calls,
                           [x \in Members |->
                               IF handleOf[g][x] = NoHandle THEN "-"
                               ELSE DesiredTitle(UserInfo(handleOf[g][x]))],
                           r.missing, FALSE)
                         EXCEPT !.written =
                             {x \in Members : r.ledger[x] # ledger[g][x]},
                                !.counts = [synced |-> r.synced,
                                            skipped |-> r.skipped,
                                            failed |-> r.failed],
                                !.cf_failed =
                                    IF f = "api" /\ handleOf[g][fm] # NoHandle
                                    THEN {fm} ELSE {}]
    /\ UNCHANGED << identifying, nIdentify,
                    handleOf, present, guildRoles, cfHist, autoRole,
                    rankupChannel, queue, evBatch, locked, pc, run,
                    achievements, sent, phaseLog, nContests, nRedeliver >>
    /\ KeepAchSeen

\* The rating changes of the past contest a command names
PublishBatches == Batches \cup {Batch(0, None)}

\* What an achievement command leaves in the record of the last operation
AchRec(op, g, outcome, r, batch, sentTo) ==
    [Rec(op, g, outcome, <<>>, NoWant, {}, FALSE)
       EXCEPT !.written = r.written, !.flagged = r.flagged,
              !.processed = r.processed, !.new_max = r.new_max,
              !.new_rank = r.new_rank, !.announce = r.announce,
              !.sent = sentTo, !.batch = batch, !.before = ledger[g]]

\* `roleupdate publish <contest_id>`: Handles._publish_now
PublishNow(g, batch) ==
    /\ Quiet
    /\ nOps < MaxOps
    /\ nOps' = nOps + 1
    /\ \E dbFail \in PersistFails(g, batch), sendOk \in BOOLEAN :
       \E r \in {check_and_update_achievements(g, batch, dbFail)} :
          LET rated == {m \in Observed(g, batch) :
                           TLE_PURGATORY \notin roles[g][m]}
              outcome == IF r.raised THEN "DatabaseError"
                         ELSE IF rated = {} THEN "HandleCogError"
                         ELSE IF ~sendOk THEN "HTTPException" ELSE "ok"
          IN /\ ledger' = [ledger EXCEPT ![g] = r.ledger]
             /\ last' = AchRec("publish", g, outcome, r, batch,
                               IF outcome = "ok" THEN r.announce ELSE {})
    /\ UNCHANGED << identifying, nIdentify,
                    handleOf, present, guildRoles, roles, cfHist, autoRole,
                    rankupChannel, queue, evBatch, locked, pc, run,
                    achievements, sent, phaseLog, interfered, nContests,
                    nRedeliver >>
    /\ KeepAchSeen

\* `test_achievements <contest_id>`
TestAchievements(g, batch) ==
    /\ Quiet
    /\ nOps < MaxOps
    /\ nOps' = nOps + 1
    /\ \E dbFail \in PersistFails(g, batch), sendOk \in BOOLEAN :
       \E r \in {check_and_update_achievements(g, batch, dbFail)} :
          LET outcome == IF r.raised THEN "DatabaseError"
                         ELSE IF r.announce = {} THEN "none"
                         ELSE IF ~sendOk THEN "HTTPException" ELSE "ok"
          IN /\ ledger' = [ledger EXCEPT ![g] = r.ledger]
             /\ last' = AchRec("test", g, outcome, r, batch,
                               IF outcome = "ok" THEN r.announce ELSE {})
    /\ UNCHANGED << identifying, nIdentify,
                    handleOf, present, guildRoles, roles, cfHist, autoRole,
                    rankupChannel, queue, evBatch, locked, pc, run,
                    achievements, sent, phaseLog, interfered, nContests,
                    nRedeliver >>
    /\ KeepAchSeen

\* -------------------------------------------------------------------- spec
\* The steps of the rating-change listener
EventSteps ==
    \/ EventStart
    \/ \E g \in Guilds : EvPersist(g)
    \/ \E g \in Guilds : EvCollect(g)
    \/ \E g \in Guilds : EvResolve(g)
    \/ \E g \in Guilds : EvReconcile(g)
    \/ \E g \in Guilds : EvNotify(g)
    \/ EvFinish

\* The commands and the member-join listener
Commands ==
    \/ \E g \in Guilds : Now(g)
    \/ \E g \in Guilds, m \in Members : on_member_join(g, m)
    \/ \E g \in Guilds, m \in Members, h \in Handles : HandleSet(g, m, h)
    \/ \E g \in Guilds, m \in Members : HandleRemove(g, m)
    \/ \E g \in Guilds, m \in Members, h \in Handles : Identify(g, m, h)
    \/ \E g \in Guilds, m \in Members, to \in Handles \cup {NoHandle} :
          Unmagic(g, m, to)
    \/ \E g \in Guilds : SyncAchievements(g)
    \/ \E g \in Guilds, author \in Members, target \in Members :
          Refer(g, author, target)
    \/ \E g \in Guilds : Grandfather(g)
    \/ \E g \in Guilds, b \in PublishBatches : PublishNow(g, b)
    \/ \E g \in Guilds, b \in PublishBatches : TestAchievements(g, b)

\* Rating-change events only, with redelivery
NextEvents ==
    \/ \E b \in Batches : Contest(b)
    \/ Redeliver
    \/ EventSteps

SpecEvents == Init /\ [][NextEvents]_vars

\* Rating-change events from one initial state, with the event loop running
\* every task that is ready: a step of the listener that stays possible is
\* eventually taken
InitFair ==
    /\ Init
    /\ guildRoles["g1"] = RoleNames
    /\ autoRole = Guilds
    /\ cfHist["h2"] = <<>>

NextFair ==
    \/ Contest(Batch(1300, 1950))
    \/ Redeliver
    \/ EventSteps

SpecEventsFair == InitFair /\ [][NextFair]_vars /\ WF_vars(EventSteps)

\* Linking commands with identify runs waiting while other commands run
NextIdentify ==
    \/ \E g \in Guilds, m \in Members, h \in Handles : IdentifyAsk(g, m, h)
    \/ \E p \in identifying : IdentifySubmit(p)
    \/ \E g \in Guilds, m \in Members, h \in Handles : HandleSet(g, m, h)
    \/ \E g \in Guilds, m \in Members : HandleRemove(g, m)
    \/ \E g \in Guilds, m \in Members, to \in Handles \cup {NoHandle} :
          Unmagic(g, m, to)

SpecIdentify == Init /\ [][NextIdentify]_vars

\* Commands only
NextCommands == Commands

SpecCommands == Init /\ [][NextCommands]_vars

\* One rating-change event with commands arriving while it is handled
InitMixed ==
    /\ Init
    /\ guildRoles["g1"] = RoleNames

Next ==
    \/ \E b \in MixedBatches : Contest(b)
    \/ EventSteps
    \/ (nOps < MaxMixedOps /\ Commands)

Spec == InitMixed /\ [][Next]_vars

\* ------------------------------------------------------------------ claims
\* The rated-rank roles in rs are exactly the wanted one (none for NoRole)
Matches(rs, want) ==
    rs \cap RatedTitles = (IF want = NoRole THEN {} ELSE {want})

IsRun(op) == op \in {"now", "join"}

LedgerLeq(a, b) ==
    /\ a.max # None => (b.max # None /\ b.max >= a.max)
    /\ RankIndex(a.rank) <= RankIndex(b.rank)

\* C1: for every (member, guild) no ledger write, by any path, lowers the
\* stored max rating or the position of the stored highest rank.
C1_LedgerNeverDecreases ==
    [][\A g \in Guilds, m \in Members : LedgerLeq(ledger[g][m], ledger'[g][m])]_vars

\* C2: right after a completed run of _update_ranks every member the run
\* covered holds exactly the rank role of the tier resolved for them and no
\* other rated-rank role (none at all when the tier is Unrated).
C2_RunConverges ==
    (/\ \/ IsRun(last.op)
        \/ last.op = "reconcile" /\ ~interfered[last.g]
     /\ last.outcome = "ok")
    => \A m \in Members :
          last.want[m] # "-" => Matches(roles[last.g][m], last.want[m])

C2_Witness ==
    /\ last.op = "now"
    /\ last.outcome = "ok"
    /\ \E i \in 1..Len(last.calls) : last.calls[i].kind = "remove"
    /\ \E i \in 1..Len(last.calls) : last.calls[i].kind = "add"
    /\ \A m \in Members :
          last.want[m] # "-" => Matches(roles[last.g][m], last.want[m])

\* C3: a second run of the guild reconciliation right after a
\* completed one issues no role-mutation call at all.
C3_SecondRunNoCalls ==
    (last.op = "now" /\ last.repeat) => last.calls = <<>>

\* C4: when the listener applies a batch to a guild's ledger a second time
\* with no other write in between, no member is flagged, no ledger row is
\* written and no announcement is produced or sent.
C4_RepeatRaisesNothing ==
    \A g \in Guilds :
        /\ (last.op = "persist" /\ last.g = g /\ last.repeat)
              => (last.written = {} /\ last.flagged = {})
        /\ (run[g].repeat /\ pc[g] # "persist")
              => (achievements[g] = {} /\ sent[g] = {})

C4_Witness ==
    /\ last.op = "persist"
    /\ last.repeat
    /\ Cardinality(Observed(last.g, evBatch)) = 2
    /\ last.written = {}

\* C5: the handler returns only when every guild's pipeline has ended, and a
\* pipeline that ended without raising has sent its own announcements,
\* whatever happened in the other guilds.
C5_PipelinesIsolated ==
    (~locked /\ evBatch # NoBatch)
    => \A g \in Guilds :
          \/ pc[g] = "failed"
          \/ /\ pc[g] = "done"
             /\ phaseLog[g][Len(phaseLog[g])] = "NOTIFY"
             /\ g \in rankupChannel => sent[g] = achievements[g]

C5_Witness ==
    /\ ~locked
    /\ pc["g1"] = "failed"
    /\ pc["g2"] = "done"
    /\ sent["g2"] # {}
    /\ "RECONCILE" \in SeqToSet(phaseLog["g2"])

\* C6: no command mutates the roles of a guild while the listener's role
\* reconciliation for that guild is in progress.
C6_NoInterleaving == \A g \in Guilds : ~interfered[g]

\* C7: an operation issues no role-mutation call for a member whose wanted
\* rank role does not exist in the guild.
C7_MissingRoleNoMutation ==
    \A i \in 1..Len(last.calls) : last.calls[i].member \notin last.missing

C9_FailureOnlyForThatMember ==
    IsRun(last.op)
    => \A i \in 1..Len(last.calls) :
          (~last.calls[i].ok /\ last.calls[i].roles # {TLE_TRUSTED})
          => \A m \in Members \ {last.calls[i].member} :
                last.want[m] # "-" => Matches(roles[last.g][m], last.want[m])

PhaseOrder(ph) ==
    CASE ph = "COLLECT" -> 1 [] ph = "RESOLVE" -> 2 [] ph = "RECONCILE" -> 3
      [] ph = "PERSIST" -> 4 [] ph = "NOTIFY" -> 5

CodeOrder(ph) ==
    CASE ph = "PERSIST" -> 1 [] ph = "COLLECT" -> 2 [] ph = "RESOLVE" -> 3
      [] ph = "RECONCILE" -> 4 [] ph = "NOTIFY" -> 5

\* C10 as stated: the phases of a guild's pipeline run in the order COLLECT,
\* RESOLVE, RECONCILE, PERSIST, NOTIFY.
C10_PhasesInSpecOrder ==
    \A g \in Guilds : \A i, j \in 1..Len(phaseLog[g]) :
        i < j => PhaseOrder(phaseLog[g][i]) < PhaseOrder(phaseLog[g][j])

\* C10 amended: the phases run in the order PERSIST, COLLECT, RESOLVE,
\* RECONCILE, NOTIFY with no back-edge: the ledger is written first, before
\* the run's role reconciliation.
C10_PhasesInCodeOrder ==
    \A g \in Guilds : \A i, j \in 1..Len(phaseLog[g]) :
        i < j => CodeOrder(phaseLog[g][i]) < CodeOrder(phaseLog[g][j])

C10_Witness ==
    \E g \in Guilds :
        phaseLog[g] = << "PERSIST", "COLLECT", "RESOLVE", "RECONCILE", "NOTIFY" >>

AchOps == {"persist", "publish", "test"}

\* The rating of member m in the batch of the last achievement operation
LastRating(m) == last.batch[handleOf[last.g][m]]

LastTier(m) == rating2rank(LastRating(m)).title

HigherRank(a, b) == IF RankIndex(a) >= RankIndex(b) THEN a ELSE b

C12_RemoveBeforeAdd ==
    \A i, j \in 1..Len(last.calls) :
        (i < j /\ last.calls[i].member = last.calls[j].member)
        => /\ ~(/\ last.calls[i].kind = "add"
                /\ last.calls[i].roles \subseteq RatedTitles
                /\ last.calls[j].kind = "remove")
           /\ ~(last.calls[i].kind = "remove" /\ ~last.calls[i].ok)

C12_Witness ==
    \E i, j \in 1..Len(last.calls) :
        /\ i < j
        /\ last.calls[i].member = last.calls[j].member
        /\ last.calls[i].kind = "remove"
        /\ last.calls[i].ok
        /\ last.calls[j].kind = "add"
        /\ last.calls[j].roles \subseteq RatedTitles

\* C13: for every processed observation is_new_max is true exactly when the
\* member had no stored record or the new rating is strictly greater than the
\* stored max rating.
C13_NewMaxIffStrictlyGreater ==
    last.op \in AchOps
    => \A m \in last.processed :
          (m \in last.new_max)
          <=> (\/ last.before[m] = NoRecord
               \/ LastRating(m) > last.before[m].max)

C13_Witness ==
    /\ last.op \in AchOps
    /\ \E m \in last.processed \ last.new_max :
          last.before[m].max = LastRating(m)

\* C14: for every processed observation is_new_rank is true exactly when the
\* member had no stored record or the position of the new tier in the rank
\* list is strictly greater than the position of the stored highest rank.
C14_NewRankIffHigherOrdinal ==
    last.op \in AchOps
    => \A m \in last.processed :
          (m \in last.new_rank)
          <=> (\/ last.before[m] = NoRecord
               \/ RankIndex(LastTier(m)) > RankIndex(last.before[m].rank))

C14_Witness ==
    /\ last.op \in AchOps
    /\ \E m \in (last.processed \cap last.new_max) \ last.new_rank :
          last.before[m].rank = LastTier(m)

\* C15: after an observation is processed and stored, the member's record is
\* (max(stored max, rating), the higher of stored rank and tier), and the
\* observation's own values when there was no record.
C15_StoredRecordIsMaximum ==
    last.op \in AchOps
    => \A m \in last.processed :
          (m \in last.flagged => m \in last.written)
          => ledger[last.g][m] =
                IF last.before[m] = NoRecord
                THEN [max |-> LastRating(m), rank |-> LastTier(m)]
                ELSE [max |-> Max2(last.before[m].max, LastRating(m)),
                      rank |-> HigherRank(last.before[m].rank, LastTier(m))]

C15_Witness ==
    /\ last.op \in AchOps
    /\ \E m \in last.new_max \cap last.new_rank \cap last.written :
          /\ last.before[m] = [max |-> 1300, rank |-> "Pupil"]
          /\ ledger[last.g][m] = [max |-> 1950, rank |-> "Candidate Master"]

\* C16: an observation that raises neither flag leaves the member's stored
\* record unchanged and produces no announcement entry for the member.
C16_NoFlagNoChange ==
    last.op \in AchOps
    => \A m \in last.processed \ last.flagged :
          /\ ledger[last.g][m] = last.before[m]
          /\ m \notin last.announce
          /\ m \notin last.written

C16_Witness ==
    /\ last.op \in AchOps
    /\ \E m \in last.processed \ last.flagged :
          /\ LastRating(m) >= PupilRating
          /\ ledger[last.g][m] = last.before[m]

RankRuns == {"now", "join", "reconcile"}

\* C17: a guild reconciliation run makes no rating-service call for a single
\* member (its only rating-service call is the batched cf.user.info).
C17_NoCallPerMember ==
    last.op \in RankRuns => last.lookups = {}

\* C18: maybe_add_trusted_role is invoked for a member only when a rank role
\* is being added to the member, never when the member already holds the
\* role of their tier.
C18_CheckOnlyOnPromotion ==
    [][last'.op \in RankRuns
          => \A m \in last'.invoked :
                last'.want[m] \notin roles[last'.g][m]]_vars

\* The handle linked to member m in guild g is in the batch of the event
InBatch(g, m) ==
    handleOf[g][m] # NoHandle /\ evBatch[handleOf[g][m]] # None

\* C19 as stated: an event-triggered run mutates no role and writes no
\* ledger row of a member whose handle is not in the batch.
C19_OnlyBatchMembersTouched ==
    [][last'.op \in {"persist", "reconcile"}
          => \A m \in Members : ~InBatch(last'.g, m) =>
                /\ roles'[last'.g][m] = roles[last'.g][m]
                /\ ledger'[last'.g][m] = ledger[last'.g][m]]_vars

\* C19 amended: an event-triggered run writes ledger rows only of members
\* whose handle is in the batch, while its role reconciliation covers every
\* linked member present in the guild, in the batch or not.
C19_LedgerBatchOnlyRolesAllLinked ==
    [][/\ last'.op = "persist"
          => \A m \in Members : ~InBatch(last'.g, m) =>
                ledger'[last'.g][m] = ledger[last'.g][m]
       /\ last'.op \in {"collect", "resolve", "reconcile", "notify"}
          => ledger' = ledger
       /\ (last'.op = "resolve" /\ last'.outcome = "ok")
          => \A m \in Members :
                (handleOf[last'.g][m] # NoHandle /\ m \in present[last'.g])
                => \E i \in 1..Len(run'[last'.g].todo) :
                      run'[last'.g].todo[i][1] = m
       /\ last'.op = "reconcile"
          => \A m \in Members :
                roles'[last'.g][m] # roles[last'.g][m]
                => (handleOf[last'.g][m] # NoHandle /\ m \in present[last'.g])
      ]_vars

C19_Witness ==
    /\ last.op = "reconcile"
    /\ \E i \in 1..Len(last.calls) :
          /\ last.calls[i].ok
          /\ ~InBatch(last.g, last.calls[i].member)

\* C20: an announcement entry is produced for a member only if one of the
\* flags is raised for the observation and the new rating is at least 1200;
\* a pipeline whose send failed sends nothing afterwards.
C20_AnnounceFlaggedAboveThresholdNoRetry ==
    [][/\ last'.op \in AchOps
          => \A m \in last'.announce :
                /\ m \in last'.flagged
                /\ last'.batch[handleOf[last'.g][m]] >= PupilRating
       /\ \A g \in Guilds :
             pc[g] = "failed" => (sent'[g] = sent[g] \/ pc'[g] = "persist")
       /\ \A g \in Guilds :
             (last'.op = "notify" /\ last'.g = g
                  /\ last'.outcome = "HTTPException")
             => (pc'[g] = "failed" /\ sent'[g] = {})
      ]_vars

C20_Witness ==
    /\ last.op = "notify"
    /\ last.outcome = "HTTPException"
    /\ achievements[last.g] # {}
    /\ sent[last.g] = {}
    /\ pc[last.g] = "failed"


\* ------------------------------------------------------------------- C21
\* The guild has no linked member who is present
NobodyLinkedPresent(g) ==
    \A m \in present[g] : handleOf[g][m] = NoHandle

\* A step that starts role reconciliation for guild g: `roleupdate now`, or
\* the ranks block of a pipeline whose guild has auto role update enabled
StartsReconcile(g) ==
    /\ last'.g = g
    /\ \/ last'.op = "now"
       \/ last'.op = "collect" /\ g \in autoRole

\* C21: when role reconciliation starts for a guild in which no linked member
\* is present, it ends at once with the single error HandleCogError: no call
\* of the rating service (cf.user.info or cf.user.rating), no role mutation
\* call, no role changed, no member reported for a missing role, and a
\* pipeline does not go on to the resolve step.
C21_NobodyLinkedShortCircuits ==
    [][\A g \in Guilds :
          (StartsReconcile(g) /\ NobodyLinkedPresent(g)) =>
              /\ last'.outcome = "HandleCogError"
              /\ last'.info_calls = 0
              /\ last'.lookups = {}
              /\ last'.calls = <<>>
              /\ last'.missing = {}
              /\ roles' = roles
              /\ pc'[g] \notin {"resolve", "reconcile", "failed"}]_vars

C21_Witness ==
    /\ last.op = "now"
    /\ NobodyLinkedPresent(last.g)
    /\ last.outcome = "HandleCogError"
    /\ \E m \in Members : handleOf[last.g][m] # NoHandle


\* ------------------------------------------------------------------- C22
LinkOps == {"set", "identify", "unmagic"}

\* No handle is linked to two members of one guild
HandleLinkedOnce ==
    \A g \in Guilds : \A a, b \in Members :
        (handleOf[g][a] # NoHandle /\ handleOf[g][a] = handleOf[g][b]) => a = b

\* The step tried to link handle h to member m in guild g
TriesLink(g, m, h) ==
    /\ last'.op \in LinkOps
    /\ last'.g = g
    /\ last'.member = m
    /\ last'.handle = h

\* C22: whatever `handle set`, identify, unmagic and `handle remove` did, a
\* handle is linked to at most one member of a guild (a member has at most one
\* handle because the link is stored per member); and a step that tries to
\* link a handle that another member of the guild holds ends with
\* HandleCogError and leaves every link as it was.
C22_LinksOneToOne ==
    /\ []HandleLinkedOnce
    /\ [][\A g \in Guilds, m \in Members, h \in Handles :
            (TriesLink(g, m, h)
               /\ \E o \in Members \ {m} : handleOf[g][o] = h) =>
                 /\ last'.outcome = "HandleCogError"
                 /\ handleOf' = handleOf]_vars

\* identify by an unlinked member for a handle that another member holds,
\* after a `handle remove`
C22_Witness ==
    /\ last.op = "identify"
    /\ last.outcome = "HandleCogError"
    /\ handleOf[last.g][last.member] = NoHandle
    /\ \E o \in Members \ {last.member} : handleOf[last.g][o] = last.handle


\* ------------------------------------------------------------------- C23
\* C23: `handle remove` leaves every achievement record as it was, the
\* unlinked member's included, and no step of any operation turns an
\* existing record back into no record.
C23_RemoveKeepsRecord ==
    [][/\ last'.op = "remove" => ledger' = ledger
       /\ \A g \in Guilds, m \in Members :
            ledger[g][m] # NoRecord => ledger'[g][m] # NoRecord]_vars

\* a member with a record has just been unlinked
C23_Witness ==
    /\ last.op = "remove"
    /\ handleOf[last.g][last.member] = NoHandle
    /\ ledger[last.g][last.member] # NoRecord


\* ------------------------------------------------------------------- C24
\* C24: whenever the listener holds its lock it releases it later, also when
\* pipelines of the run have failed, and every rating-change event that waits
\* for the lock is later taken up and its run finished.
C24_LockReleasedEventProcessed ==
    /\ locked ~> ~locked
    /\ (queue # <<>>) ~> (queue = <<>> /\ ~locked)

\* the handler has returned and released the lock although a pipeline failed
C24_Witness ==
    /\ last.op = "finish"
    /\ ~locked
    /\ \E g \in Guilds : pc[g] = "failed"


\* ------------------------------------------------------------------- C25
\* C25: when the handler of an event finishes, it has a summary for every
\* guild, and the summary of a guild whose pipeline failed says that it
\* failed.
C25_SummaryPerGuild ==
    last.op = "finish" =>
        \A g \in Guilds :
            /\ last.summary[g] # "none"
            /\ pc[g] = "failed" => last.summary[g] = "failed"


\* ------------------------------------------------------------------- C26
\* C26: test_achievements leaves every achievement record as it was: the
\* stored max rating and highest rank of every member are the same after the
\* command as before it.
C26_TestLeavesLedger ==
    [][last'.op = "test" => ledger' = ledger]_vars


\* ------------------------------------------------------------------- C27
\* Operations that call update_member_rank_role with the role recorded as
\* wanted for the member
WholeRoleOps == {"now", "join", "set", "identify", "unmagic", "remove"}

\* The rank-namespace roles in held other than the target's
OtherRankRoles(held, target) == (held \cap RatedTitles) \ {target}

\* The same, and Purgatory if held and the target is a tier above Expert
OtherRankRolesAndPurgatory(held, target) ==
    OtherRankRoles(held, target)
        \cup (IF target \in RatedTitles \ LowRanks
              THEN held \cap {TLE_PURGATORY} ELSE {})

RemoveCalls == {i \in 1..Len(last.calls) : last.calls[i].kind = "remove"}

\* C27 as claimed: every remove_roles call names exactly the rank-namespace
\* roles the member holds other than the desired tier's role, and no role
\* outside the rank namespace.
C27_RemovesRankRolesOnly ==
    \A i \in RemoveCalls :
        /\ last.calls[i].roles =
               OtherRankRoles(last.calls[i].held, last.calls[i].target)
        /\ last.calls[i].roles \subseteq RatedTitles

\* C27 amended: every remove_roles call names exactly the rank-namespace
\* roles the member holds other than the desired tier's role, plus Purgatory
\* when the member holds it and the desired tier is above Expert; and an
\* operation that ends without error has taken exactly these roles away from
\* each present member it covers.
C27_RemovesRankRolesAndPurgatory ==
    /\ [](\A i \in RemoveCalls :
            last.calls[i].roles =
                OtherRankRolesAndPurgatory(last.calls[i].held,
                                           last.calls[i].target))
    /\ [][(last'.op \in WholeRoleOps /\ last'.outcome = "ok") =>
            \A m \in present[last'.g] :
                last'.want[m] # "-" =>
                    roles[last'.g][m] \ roles'[last'.g][m] =
                        OtherRankRolesAndPurgatory(roles[last'.g][m],
                                                   last'.want[m])]_vars

\* a remove_roles call took a rank role and Purgatory from a member promoted
\* above Expert
C27_Witness ==
    \E i \in RemoveCalls :
        /\ last.calls[i].ok
        /\ TLE_PURGATORY \in last.calls[i].roles
        /\ last.calls[i].roles \cap RatedTitles # {}
        /\ last.calls[i].target \in RatedTitles \ LowRanks


\* ------------------------------------------------------------------- C28
\* C28: a refer whose target holds Purgatory, or whose target is the invoker,
\* issues no role call and leaves every role as it was; in particular the
\* target does not get Trusted.
C28_ReferNeverPurgatoryNorSelf ==
    [][(/\ last'.op = "refer"
        /\ \/ TLE_PURGATORY \in roles[last'.g][last'.member]
           \/ last'.member = last'.author) =>
            /\ last'.calls = <<>>
            /\ roles' = roles
            /\ last'.outcome \notin {"ok", "already"}]_vars

\* a member without Trusted who holds Purgatory was referred by another member
C28_Witness ==
    /\ last.op = "refer"
    /\ last.member # last.author
    /\ TLE_PURGATORY \in roles[last.g][last.member]
    /\ TLE_TRUSTED \notin roles[last.g][last.member]
    /\ last.outcome = "purgatory"

\* ------------------------------------------------------------------- C29
\* Members that grandfather reaches after member m in its loop
After(g, m) == {x \in present[g] : x > m}

\* C29: grandfather gives Trusted only to members whose join date is known
\* and before the cutoff day and who do not hold Purgatory; and when an
\* add_roles call is refused for missing permissions the command stops: that
\* call is its last, and no member after that one is looked at or changed.
C29_GrandfatherOnlyOldNotPurgatory ==
    [][last'.op = "grandfather" =>
         /\ \A m \in Members :
              TLE_TRUSTED \in roles'[last'.g][m] \ roles[last'.g][m] =>
                  /\ m \in present[last'.g]
                  /\ last'.joined[m] # None
                  /\ last'.joined[m] < 20250421
                  /\ TLE_PURGATORY \notin roles[last'.g][m]
         /\ last'.outcome = "stopped" =>
              LET c == last'.calls[Len(last'.calls)]
              IN /\ ~c.ok
                 /\ \A i \in 1..(Len(last'.calls) - 1) :
                       last'.calls[i].member < c.member
                 /\ \A x \in After(last'.g, c.member) :
                       /\ x \notin last'.processed
                       /\ roles'[last'.g][x] = roles[last'.g][x]]_vars

\* grandfather stopped at a refused call before it reached an old member
\* without Purgatory and without Trusted
C29_Witness ==
    /\ last.op = "grandfather"
    /\ last.outcome = "stopped"
    /\ \E x \in After(last.g, last.calls[Len(last.calls)].member) :
          /\ last.joined[x] = 20250420
          /\ TLE_PURGATORY \notin roles[last.g][x]
          /\ TLE_TRUSTED \notin roles[last.g][x]


\* ------------------------------------------------------------------- C30
\* The role named after the tier of the best-known rating of handle h:
\* maxRating when it is present and not zero, else the current rating; no
\* role when that is absent or its tier is Unrated
BestKnownRole(h) ==
    LET user == UserInfo(h)
        best == IF user.maxRating # None /\ user.maxRating # 0
                THEN user.maxRating ELSE user.rating
    IN IF best = None \/ rating2rank(best) = UNRATED_RANK THEN NoRole
       ELSE rating2rank(best).title

\* Operations that assign rank roles to linked members
AssignOps == {"now", "join", "set", "identify", "unmagic", "sync"}

\* C30: on every role-assignment path the role wanted for a member, which
\* update_member_rank_role is called with, is the role of the best-known
\* rating of the member's handle: every remove_roles call belongs to an
\* update with that target and every rank role added is that role.
C30_TargetIsBestKnownRole ==
    last.op \in AssignOps =>
        \A i \in 1..Len(last.calls) :
            LET c == last.calls[i]
                h == handleOf[last.g][c.member]
            IN /\ c.kind = "remove" => c.target = BestKnownRole(h)
               /\ (c.kind = "add" /\ c.roles \subseteq RatedTitles) =>
                      c.roles = {BestKnownRole(h)}


\* ------------------------------------------------------------------- C31
\* C31: when an identify run comes back from its wait and the handle is by
\* then linked to another member of the guild, the invoker is not linked to
\* it: the run ends with HandleCogError, no role call is issued, and links,
\* roles and achievement records are as they were.
C31_IdentifyRaceRefused ==
    [][\A g \in Guilds, m \in Members, h \in Handles :
         (/\ last'.op = "submit" /\ last'.outcome # "retry"
          /\ last'.g = g /\ last'.member = m /\ last'.handle = h
          /\ \E o \in Members \ {m} : handleOf[g][o] = h) =>
              /\ last'.outcome = "HandleCogError"
              /\ last'.calls = <<>>
              /\ handleOf' = handleOf
              /\ roles' = roles
              /\ ledger' = ledger]_vars

\* the handle was free when identify checked it and another member holds it
\* when the run comes back
C31_Witness ==
    /\ last.op = "submit"
    /\ last.outcome = "HandleCogError"
    /\ handleOf[last.g][last.member] = NoHandle
    /\ \E o \in Members \ {last.member} : handleOf[last.g][o] = last.handle


\* ------------------------------------------------------------------- C33
EventOps == {"persist", "collect", "resolve", "reconcile", "notify"}

\* C33: in a guild with auto role update disabled no step of an event's
\* pipeline issues a role call or changes a role; and when the pipeline is
\* done, the record of every present linked member with a change in the
\* batch holds at least the new rating, and every announcement computed for the event
\* has been sent to the guild's channel.
C33_DisabledGuildLedgerAndNotifyOnly ==
    /\ [][\A g \in Guilds \ autoRole :
            (last'.op \in EventOps /\ last'.g = g) =>
                /\ last'.calls = <<>>
                /\ roles'[g] = roles[g]]_vars
    /\ [](\A g \in Guilds \ autoRole :
            (pc[g] = "done" /\ g \in rankupChannel) =>
                /\ \A m \in present[g] :
                     InBatch(g, m) =>
                        /\ ledger[g][m] # NoRecord
                        /\ ledger[g][m].max >= evBatch[handleOf[g][m]]
                /\ sent[g] = achievements[g])

\* a finished pipeline of a disabled guild that wrote a record and sent an
\* announcement
C33_Witness ==
    \E g \in Guilds \ autoRole :
        /\ pc[g] = "done"
        /\ run[g].written # {}
        /\ sent[g] # {}


\* ------------------------------------------------------------------- C34
\* The phases of a pipeline whose role reconciliation ended with
\* HandleCogError: it never reached its loop
RanksAborted(ph) ==
    /\ \E i \in 1..Len(ph) : ph[i] = "COLLECT"
    /\ \A i \in 1..Len(ph) : ph[i] # "RECONCILE"

\* C34: a step of a pipeline's role reconciliation that ends with
\* HandleCogError changes no role and leaves the pipeline running, at the
\* sending of the announcements; and when such a pipeline is done, every
\* announcement computed for the event has been sent to the guild's channel.
C34_HandleCogErrorSuppressed ==
    /\ [][\A g \in Guilds :
            (/\ last'.op \in {"collect", "resolve"}
             /\ last'.g = g
             /\ last'.outcome = "HandleCogError") =>
                /\ pc'[g] = "notify"
                /\ roles' = roles
                /\ ledger' = ledger
                /\ achievements' = achievements]_vars
    /\ [](\A g \in Guilds :
            (pc[g] = "done" /\ g \in rankupChannel /\ RanksAborted(phaseLog[g]))
                => sent[g] = achievements[g])

\* a pipeline that met a missing rank role and then sent an announcement
C34_Witness ==
    \E g \in Guilds :
        /\ pc[g] = "done"
        /\ RanksAborted(phaseLog[g])
        /\ sent[g] # {}


\* ------------------------------------------------------------------- C35
SetOps == {"set", "submit"}

\* the step ran _set for a handle that another member of the guild held
SetMetForeignLink ==
    /\ last'.op \in SetOps
    /\ last'.outcome # "retry"
    /\ \E o \in Members \ {last'.member} :
          handleOf[last'.g][o] = last'.handle

\* C35: a _set for a handle that is linked to another member of the guild
\* raises HandleCogError and changes nothing: the handle links, the cached
\* user data, the achievement ledger and every member's roles are as before,
\* and no role call is issued.
C35_RefusedSetChangesNothing ==
    [][SetMetForeignLink =>
          /\ last'.outcome = "HandleCogError"
          /\ handleOf' = handleOf
          /\ last'.cached = {}
          /\ ledger' = ledger
          /\ roles' = roles
          /\ last'.calls = <<>>]_vars

\* a _set that was refused for a member who already had another handle and an
\* achievement record
C35_Witness ==
    /\ last.op \in SetOps
    /\ last.outcome = "HandleCogError"
    /\ last.member # 0
    /\ \E o \in Members \ {last.member} : handleOf[last.g][o] = last.handle
    /\ ledger[last.g][last.member] # NoRecord


\* ------------------------------------------------------------------- C36
\* the step ran _set and the guild had no role for the member's rank
SetMetMissingRole ==
    /\ last'.op \in SetOps
    /\ last'.outcome = "HandleCogError"
    /\ last'.missing = {last'.member}

\* C36: when _set raises because the guild has no role for the member's
\* rank, the handle is linked to the member and the member's achievement
\* record, written before the raise, is stored with the handle's best
\* rating; no role call is issued and every member's roles are as before.
C36_MissingRoleKeepsLinkAndRecord ==
    [][SetMetMissingRole =>
          /\ handleOf'[last'.g][last'.member] = last'.handle
          /\ ledger'[last'.g][last'.member] # NoRecord
          /\ ledger'[last'.g][last'.member].max
                >= UserInfo(last'.handle).maxRating
          /\ roles' = roles
          /\ last'.calls = <<>>]_vars

\* a _set that linked the handle and changed the member's achievement record
\* before it raised for the missing role
C36_Witness ==
    /\ last.op \in SetOps
    /\ last.outcome = "HandleCogError"
    /\ last.missing = {last.member}
    /\ last.written = {last.member}
    /\ handleOf[last.g][last.member] = last.handle


\* ------------------------------------------------------------------- C37
\* C37: when `handle remove` completes for a handle whose member is in the
\* guild, the handle is linked to nobody in the guild, the member holds no
\* rated-rank role, the member's other roles (Purgatory and Trusted among
\* them) are as before, and no other member's roles changed.
C37_RemoveUnlinksAndStripsRanks ==
    [][(/\ last'.op = "remove"
        /\ last'.outcome = "ok"
        /\ last'.member \in present[last'.g]) =>
          LET g == last'.g
              m == last'.member
          IN /\ handleOf[g][m] = last'.handle
             /\ handleOf'[g][m] = NoHandle
             /\ \A o \in Members : handleOf'[g][o] # last'.handle
             /\ roles'[g][m] \cap RatedTitles = {}
             /\ roles'[g][m] \ RatedTitles = roles[g][m] \ RatedTitles
             /\ \A x \in Guilds, o \in Members :
                   (x # g \/ o # m) => roles'[x][o] = roles[x][o]]_vars

\* a completed remove for a member who held a rank role and Purgatory and
\* still holds Purgatory
C37_Witness ==
    /\ last.op = "remove"
    /\ last.outcome = "ok"
    /\ last.member \in present[last.g]
    /\ Len(last.calls) = 1
    /\ TLE_PURGATORY \in last.calls[1].held
    /\ TLE_PURGATORY \in roles[last.g][last.member]
    /\ handleOf[last.g][last.member] = NoHandle


\* ------------------------------------------------------------------- C38
UpToExpert == {"Newbie", "Pupil", "Specialist", "Expert"}

HigherTitles == RatedTitles \ UpToExpert

\* C38: update_member_rank_role takes Purgatory away exactly when the role
\* it assigns is a rank above Expert. A remove_roles call names Purgatory
\* if and only if the member holds it and the assigned role is above Expert;
\* a member who is assigned Newbie, Pupil, Specialist, Expert or no role
\* keeps a held Purgatory and the Trusted check is not invoked for them;
\* and a member assigned a higher rank by an operation that ends without
\* error does not hold Purgatory afterwards.
C38_PurgatoryGoesOnlyAboveExpert ==
    /\ [](\A i \in RemoveCalls :
            TLE_PURGATORY \in last.calls[i].roles
                <=> /\ TLE_PURGATORY \in last.calls[i].held
                    /\ last.calls[i].target \in HigherTitles)
    /\ [][last'.op \in WholeRoleOps =>
            \A m \in present[last'.g] :
                /\ (/\ last'.want[m] \in UpToExpert \cup {NoRole}
                    /\ TLE_PURGATORY \in roles[last'.g][m])
                      => /\ TLE_PURGATORY \in roles'[last'.g][m]
                         /\ m \notin last'.invoked
                /\ (/\ last'.want[m] \in HigherTitles
                    /\ last'.outcome = "ok")
                      => TLE_PURGATORY \notin roles'[last'.g][m]]_vars

\* a member holding Purgatory was assigned Pupil and still holds Purgatory
C38_Witness ==
    /\ last.op \in WholeRoleOps
    /\ \E m \in present[last.g] :
          /\ last.want[m] = "Pupil"
          /\ \E i \in RemoveCalls :
                /\ last.calls[i].member = m
                /\ TLE_PURGATORY \in last.calls[i].held
          /\ roles[last.g][m] \cap (RatedTitles \cup {TLE_PURGATORY})
                = {"Pupil", TLE_PURGATORY}


\* ------------------------------------------------------------------- C39
\* The members with a linked handle in guild g: the pairs sync_achievements
\* goes through
SyncedMembers(g) == {m \in Members : handleOf[g][m] # NoHandle}

\* C39: when sync_achievements runs to completion, synced + skipped + failed
\* is the number of (user, handle) pairs, and each pair is in exactly one
\* count: failed counts the users whose rating-service call raised, synced
\* the other users with a rating history and skipped the other users without
\* one; and every user other than the failed ones was processed, so a user
\* with a rating history has an achievement record with the history's best
\* rating afterwards.
C39_SyncCountsEveryPairOnce ==
    [][(last'.op = "sync" /\ last'.outcome = "ok") =>
          LET g == last'.g
              c == last'.counts
              tried == SyncedMembers(g) \ last'.cf_failed
              rated == {m \in tried : cfHist[handleOf[g][m]] # <<>>}
          IN /\ c.synced + c.skipped + c.failed
                   = Cardinality(SyncedMembers(g))
             /\ c.failed = Cardinality(last'.cf_failed)
             /\ c.synced = Cardinality(rated)
             /\ c.skipped = Cardinality(tried \ rated)
             /\ \A m \in rated :
                   /\ ledger'[g][m] # NoRecord
                   /\ ledger'[g][m].max
                         = UserInfo(handleOf[g][m]).maxRating]_vars

\* a completed sync in which the rating service failed for the first user and
\* the second user's record was still written
C39_Witness ==
    /\ last.op = "sync"
    /\ last.outcome = "ok"
    /\ last.cf_failed = {1}
    /\ last.counts.failed = 1
    /\ last.counts.synced = 1
    /\ 2 \in last.written

====
